---- MODULE Spec2Model ----
(***************************************************************************)
(* Model of the data aggregation pipeline of the project dashboard         *)
(* backend (src/backend/app/services/data_processing.py) and of the        *)
(* request handlers that drive it (src/backend/app/routers).               *)
(*                                                                         *)
(* A DataFrame is a record [cols, rows]: the set of its column names and   *)
(* the sequence of its rows.  A row is a record that carries every field;  *)
(* a field whose column is not in cols is never read (reading it is the    *)
(* KeyError of the code, modelled by a result with raised = TRUE).         *)
(*                                                                         *)
(* Time is counted in ticks; a calendar day has DayLen ticks.  Strings of  *)
(* the source that are not ASCII are written in ASCII here:                *)
(*   DONE  "done"  stands for the status literal of a completed task,      *)
(*   MARK  "o"     stands for the milestone mark (a circle).               *)
(***************************************************************************)
EXTENDS Integers, Sequences, FiniteSets, TLC

VARIABLES
    now,      \* the wall clock: time.time() and datetime.datetime.now()
    fs,       \* the files and folders on disk, by path
    environ,  \* os.environ: [APP_PATH, PMSUITE_DASHBOARD_FILE]
    default_dashboard_path,   \* _default_dashboard_path of the path resolver
    cache,    \* _data_cache, a dict in insertion order: Seq of [key, data, ts]
    stats,    \* _cache_stats: [hits, misses]
    out,      \* what the last call or request returned
    pc,       \* worker-pool threads: position of each inside cache_result.wrapper
    loc,      \* worker-pool threads: the local variables of each
    initialization_state   \* initialization_state of system_health

vars == <<now, fs, environ, default_dashboard_path, cache, stats, out, pc, loc,
          initialization_state>>

(***************************************************************************)
(* Bounds of the model.                                                    *)
(***************************************************************************)
DayLen     == 2   \* ticks in a calendar day
MaxTime    == 3   \* the clock stops at this tick
MaxRows    == 2   \* rows of a generated task table
MaxCalls   == 3   \* memoized calls counted by _cache_stats before the last one
MaxEntries == 2   \* max_entries of cache_result (the code passes 50)
Ttl60      == 2   \* ttl_seconds=60 of cache_result, in ticks
Ttl30      == 1   \* ttl_seconds=30 of cache_result (get_recent_tasks), in ticks
NThreads   == 2   \* worker threads running memoized calls at the same time
MaxThreadCalls == 2   \* memoized calls one worker thread makes

(***************************************************************************)
(* Values.                                                                 *)
(***************************************************************************)
DONE  == "done"
MARK  == "o"
NaT   == -1          \* pandas NaT: a date cell that is empty or unparseable
NullId == "nan"      \* an empty task_id cell (NaN)
NullStr == ""        \* an empty text cell (NaN)

IsNaT(d) == d = NaT

\* Series.dt.date and datetime.date(): the calendar day of a timestamp
dt_date(t) == t \div DayLen

\* project_id cells: read_csv makes the column int64 or object (str)
PidInt(n) == [t |-> "int", n |-> n, s |-> ""]
PidStr(s) == [t |-> "str", n |-> 0, s |-> s]

Digits == <<"0", "1", "2", "3", "4", "5", "6", "7", "8", "9">>

RECURSIVE StrInt(_)
StrInt(n) == IF n < 10 THEN Digits[n + 1]
             ELSE StrInt(n \div 10) \o Digits[(n % 10) + 1]

\* str(x) / Series.astype(str) of a project_id cell
str(pid) == IF pid.t = "int" THEN StrInt(pid.n) ELSE pid.s

\* the result of a call: a value, or an exception leaving the function
Ok(v)     == [raised |-> FALSE, val |-> v]
Raise(e)  == [raised |-> TRUE, val |-> e]

TaskCols == {"project_id", "project_name", "task_id", "task_name",
             "task_status", "task_start_date", "task_finish_date",
             "task_milestone", "process", "line"}

MkRow(pid, tid, name, status, start, finish, ms) ==
    [project_id |-> pid, project_name |-> "N" \o str(pid),
     task_id |-> tid, task_name |-> name, task_status |-> status,
     task_start_date |-> start, task_finish_date |-> finish,
     task_milestone |-> ms, process |-> "proc", line |-> "line"]

DataFrame(cols, rows) == [cols |-> cols, rows |-> rows]

(***************************************************************************)
(* check_delays                                                            *)
(***************************************************************************)
\* variant of the row filter that compares the timestamps, time of day
\* included
IsDelayedRow_ByTimestamp(r, t) ==
    /\ ~IsNaT(r.task_finish_date)
    /\ r.task_finish_date < t
    /\ r.task_status # DONE

\* the row filter of check_delays: date-only comparison, NaT compares False
IsDelayedRow(r, t) ==
    LET current_date == dt_date(t) * DayLen   \* now().replace(hour=0, ...)
    IN  /\ ~IsNaT(r.task_finish_date)
        /\ dt_date(r.task_finish_date) < dt_date(current_date)
        /\ r.task_status # DONE

check_delays(df, t) ==
    IF ~({"task_finish_date", "task_status"} \subseteq df.cols)
    THEN Raise("KeyError")
    ELSE LET delayed_tasks == SelectSeq(df.rows, LAMBDA r : IsDelayedRow(r, t))
         IN  IF delayed_tasks # <<>> /\ "project_id" \notin df.cols
             THEN Raise("KeyError")
             ELSE Ok(DataFrame(df.cols, delayed_tasks))

\* get_delayed_projects_count without the decorator
get_delayed_projects_count(df, t) ==
    LET d == check_delays(df, t)
    IN  IF d.raised THEN d
        ELSE IF "project_id" \notin df.cols THEN Raise("KeyError")
        ELSE Ok(Cardinality({d.val.rows[i].project_id : i \in DOMAIN d.val.rows}))

(***************************************************************************)
(* calculate_progress                                                      *)
(***************************************************************************)
RollupCols == {"project_id", "project_name", "process", "line",
               "total_tasks", "completed_tasks", "milestone_count",
               "start_date", "end_date", "project_path", "ganttchart_path",
               "progress", "duration"}

\* a float of the progress column, in hundredths of a percent, or inf
Num(c) == [inf |-> FALSE, c |-> c]
Inf    == [inf |-> TRUE, c |-> 0]

\* the single diagnostic row returned for an error input or an exception
ErrorRollup(name, t) ==
    DataFrame(RollupCols,
      << [project_id |-> PidInt(0), project_name |-> name,
          process |-> "N/A", line |-> "N/A",
          total_tasks |-> 0, completed_tasks |-> 0, milestone_count |-> 0,
          start_date |-> t, end_date |-> t,
          project_path |-> "", ganttchart_path |-> "",
          progress |-> Num(0), duration |-> 0] >>)

\* str.contains(MARK, na=False) on one cell
Contains(s, m) ==
    \E i \in 1..(Len(s) - Len(m) + 1) : SubSeq(s, i, i + Len(m) - 1) = m

\* dtype of the task_milestone column as read_csv makes it: a column whose
\* cells are all empty is float64 (NaN), any text makes it object
MilestoneDtype(df) ==
    IF df.rows # <<>> /\ \A i \in DOMAIN df.rows : df.rows[i].task_milestone = NullStr
    THEN "float64" ELSE "object"

\* the order in which groupby (sort=True) yields its keys
PidStrOrder == <<"0", "1", "2", "P1", "P2">>
PidRank(pid) ==
    IF pid.t = "int" THEN pid.n
    ELSE CHOOSE k \in DOMAIN PidStrOrder : PidStrOrder[k] = pid.s

RECURSIVE SortPids(_)
SortPids(S) ==
    IF S = {} THEN <<>>
    ELSE LET m == CHOOSE x \in S : \A y \in S : PidRank(x) <= PidRank(y)
         IN  <<m>> \o SortPids(S \ {m})

GroupRows(df, pid) == SelectSeq(df.rows, LAMBDA r : r.project_id = pid)

\* (x == DONE).sum()
CountDone(rows) == Len(SelectSeq(rows, LAMBDA r : r.task_status = DONE))

\* the 'count' aggregate of task_id: NaN cells are not counted
CountTaskIds(rows) == Len(SelectSeq(rows, LAMBDA r : r.task_id # NullId))

\* x.str.contains(MARK, na=False).sum()
CountMarks(rows) == Len(SelectSeq(rows, LAMBDA r : Contains(r.task_milestone, MARK)))

\* Series.min() / Series.max() of a date column: NaT cells are skipped
MinDate(rows, col) ==
    LET S == {rows[i][col] : i \in DOMAIN rows} \ {NaT}
    IN  IF S = {} THEN NaT ELSE CHOOSE d \in S : \A e \in S : d <= e
MaxDate(rows, col) ==
    LET S == {rows[i][col] : i \in DOMAIN rows} \ {NaT}
    IN  IF S = {} THEN NaT ELSE CHOOSE d \in S : \A e \in S : d >= e

\* round(x, 2) of n / d * 100 in hundredths: round half to even
RoundDiv(n, d) ==
    LET q == n \div d
        r == n % d
    IN  IF 2 * r < d THEN q
        ELSE IF 2 * r > d THEN q + 1
        ELSE IF q % 2 = 0 THEN q ELSE q + 1

\* (completed_tasks / total_tasks * 100).round(2).fillna(0)
ProgressOf(completed, total) ==
    IF total = 0
    THEN IF completed = 0 THEN Num(0)   \* 0/0 = NaN, filled with 0
         ELSE Inf                        \* n/0 = inf, which fillna leaves
    ELSE Num(RoundDiv(completed * 10000, total))

\* variant of the duration without the null guard
DurationOf_NoFill(start, end) == (end - start) \div DayLen

\* (end_date - start_date).dt.days, fillna(0).astype(int)
DurationOf(start, end) ==
    IF IsNaT(start) \/ IsNaT(end) THEN 0
    ELSE (end - start) \div DayLen

RollupRow(df, pid) ==
    LET g == GroupRows(df, pid)
        completed == CountDone(g)
        total == CountTaskIds(g)
        start == MinDate(g, "task_start_date")
        end == MaxDate(g, "task_finish_date")
    IN  [project_id |-> pid,
         project_name |-> g[1].project_name,
         process |-> g[1].process,
         line |-> g[1].line,
         total_tasks |-> total,
         completed_tasks |-> completed,
         milestone_count |->
             IF "task_milestone" \in df.cols
             THEN CountMarks(g)
             ELSE 0,
         start_date |-> start,
         end_date |-> end,
         project_path |-> "", ganttchart_path |-> "",
         progress |-> ProgressOf(completed, total),
         duration |-> DurationOf(start, end)]

RequiredColumns == {"project_id", "project_name", "task_id", "task_status",
                    "task_start_date", "task_finish_date"}

\* the columns of the rollup: those aggregated, those computed, and of
\* required_result_cols those missing (all of them are computed already)
RollupColsOf(df) ==
    {"project_id", "project_name", "task_id", "total_tasks", "completed_tasks",
     "milestone_count", "start_date", "end_date", "progress", "duration"}
    \cup (df.cols \cap {"process", "line", "project_path", "ganttchart_path"})

\* the body of the try block of calculate_progress
calculate_progress_try(df, t) ==
    IF df.rows = <<>> \/ df.cols = {}
    THEN Ok(DataFrame(RollupCols, <<>>))
    ELSE IF "error" \in df.cols
    THEN Ok(ErrorRollup("error", t))
    ELSE IF ~(RequiredColumns \subseteq df.cols)
    THEN Ok(ErrorRollup("data error", t))
    ELSE IF "task_milestone" \in df.cols /\ MilestoneDtype(df) # "object"
    THEN Raise("AttributeError")      \* .str accessor on a float64 column
    ELSE LET keys == SortPids({df.rows[i].project_id : i \in DOMAIN df.rows})
         IN  Ok(DataFrame(RollupColsOf(df),
                          [k \in DOMAIN keys |-> RollupRow(df, keys[k])]))

\* variant of calculate_progress without the except clause
calculate_progress_NoExcept(df, t) == calculate_progress_try(df, t)

\* calculate_progress without the decorator: try / except Exception
calculate_progress(df, t) ==
    LET r == calculate_progress_try(df, t)
    IN  IF r.raised THEN Ok(ErrorRollup("calc error", t)) ELSE r

(***************************************************************************)
(* cache_result: the memoizing decorator                                   *)
(***************************************************************************)
\* ":".join(key_parts)
RECURSIVE Join(_)
Join(parts) ==
    IF Len(parts) = 1 THEN parts[1]
    ELSE parts[1] \o ":" \o Join(Tail(parts))

\* the values passed to a memoized function: a str, an int, a record set
\* (DataFrame number i), or None
StrArg(x) == [type |-> "str", i |-> 0, s |-> x]
IntArg(n) == [type |-> "int", i |-> n, s |-> ""]
DfArg(n)  == [type |-> "DataFrame", i |-> n, s |-> ""]
NoneArg  == [type |-> "NoneType", i |-> 0, s |-> ""]

\* isinstance(arg, (str, int, float, bool))
IsScalar(arg) == arg.type \in {"str", "int", "float", "bool"}

\* str(n) of a natural number
DigitChars == <<"0", "1", "2", "3", "4", "5", "6", "7", "8", "9">>
RECURSIVE NatStr(_)
NatStr(n) ==
    IF n < 10 THEN DigitChars[n + 1]
    ELSE NatStr(n \div 10) \o DigitChars[(n % 10) + 1]

\* str(arg) of a scalar
PyStr(arg) ==
    IF arg.type = "str" THEN arg.s
    ELSE IF arg.i < 0 THEN "-" \o NatStr(-arg.i)
    ELSE NatStr(arg.i)

\* the str() of the scalar positional arguments, in their order
RECURSIVE ScalarParts(_)
ScalarParts(args) ==
    IF args = <<>> THEN <<>>
    ELSE IF IsScalar(Head(args))
    THEN <<PyStr(Head(args))>> \o ScalarParts(Tail(args))
    ELSE ScalarParts(Tail(args))

\* variant of cache_key that keeps the function name only
cache_key_NameOnly(func_name, args, file_path) == func_name

\* the key the wrapper builds for func(*args, dashboard_file_path=file_path);
\* file_path is "" when the keyword is not given (or given as None or "")
cache_key(func_name, args, file_path) ==
    Join(<<func_name>> \o ScalarParts(args)
         \o (IF file_path # "" THEN <<file_path>> ELSE <<>>))

\* position of a key in the dict, 0 when absent
KeyIndex(c, key) ==
    IF \E i \in DOMAIN c : c[i].key = key
    THEN CHOOSE i \in DOMAIN c : c[i].key = key
    ELSE 0

\* min(_data_cache.items(), key=lambda x: x[1][1])[0]: the first entry, in
\* insertion order, among those with the smallest timestamp
OldestIndex(c) ==
    CHOOSE i \in DOMAIN c :
        /\ \A j \in DOMAIN c : c[i].ts <= c[j].ts
        /\ \A j \in 1..(i - 1) : c[j].ts > c[i].ts

\* del _data_cache[key] at position i
DelAt(c, i) == SubSeq(c, 1, i - 1) \o SubSeq(c, i + 1, Len(c))

\* _data_cache[cache_key] = (result, time.time()): an existing key keeps its
\* place in the dict, a new key goes last
Put(c, key, data, t) ==
    LET i == KeyIndex(c, key)
        e == [key |-> key, data |-> data, ts |-> t]
    IN  IF i = 0 THEN Append(c, e) ELSE [c EXCEPT ![i] = e]

\* the eviction test of the wrapper
\* variant of the size test that evicts one insertion too late
CacheIsFull_Late(c) == Len(c) > MaxEntries

CacheIsFull(c) == Len(c) >= MaxEntries

\* the freshness test of the wrapper
IsFresh(age, ttl) == age < ttl

\* _cache_stats['misses'] += 1: the module state in which the wrapped
\* function runs
Missed(st) == [st EXCEPT !.stats.misses = @ + 1]

\* a wrapped function that calls no memoized function: state s is left as is
Pure(s, r) == [st |-> s, r |-> r]

\* cache_result.wrapper, called at time t in module state st = [cache, stats].
\* b = [st, r] is the run of the wrapped function started in Missed(st): the
\* state it leaves (a wrapped function may itself call a memoized function)
\* and its result; it is used on a miss only.  Yields [st, r, ran, hit]: ran
\* tells whether the wrapped function was executed, hit whether the stored
\* entry was returned, evicted whether an entry was deleted to make room.
wrapper(st, t, key, ttl, b) ==
    LET i == KeyIndex(st.cache, key)
    IN  IF i # 0 /\ IsFresh(t - st.cache[i].ts, ttl)
        THEN [st |-> [st EXCEPT !.stats.hits = @ + 1],
              r |-> Ok(st.cache[i].data),
              ran |-> FALSE, hit |-> TRUE, evicted |-> FALSE]
        ELSE IF b.r.raised
        THEN [st |-> b.st, r |-> b.r,
              ran |-> TRUE, hit |-> FALSE, evicted |-> FALSE]
        ELSE LET full == CacheIsFull(b.st.cache)
                 c1 == IF full
                       THEN DelAt(b.st.cache, OldestIndex(b.st.cache))
                       ELSE b.st.cache
             IN  [st |-> [b.st EXCEPT !.cache = Put(c1, key, b.r.val, t)],
                  r |-> b.r, ran |-> TRUE, hit |-> FALSE, evicted |-> full]

\* a clear_cache that reports the size of the store and leaves it as it is
clear_cache_Keep(st) == [st |-> st, r |-> Ok(Len(st.cache))]

\* clear_cache: the store is replaced by an empty one, the counters stay,
\* and the size the store had is returned
clear_cache(st) == [st |-> [st EXCEPT !.cache = <<>>], r |-> Ok(Len(st.cache))]

(***************************************************************************)
(* resolve_dashboard_path                                                  *)
(***************************************************************************)
None == "None"     \* Python's None, where a path is expected

\* os.environ without APP_PATH, and with the application bundle directory
AppDir == "/app"
NoEnviron == [APP_PATH |-> "", PMSUITE_DASHBOARD_FILE |-> ""]

HomeDir == "~"
\* the folders of the home directory the resolver looks into, in its order
\* (the first two of the list of the source)
UserFolders == <<HomeDir \o "/Documents", HomeDir \o "/Desktop">>

\* Path(app_path) / "data" / "exports" / "dashboard.csv", and the same under
\* a user folder or the home directory
ExportsUnder(dir) == dir \o "/data/exports/" \o "dashboard.csv"
\* folder / "ProjectSuite" / "ProjectManager" / "data" / "exports" / "dashboard.csv"
TargetUnder(folder) == ExportsUnder(folder \o "/ProjectSuite/ProjectManager")

\* the file at a path: os.path.exists is False for a path of no file
FileAt(f, p) ==
    IF p \in DOMAIN f THEN f[p]
    ELSE [exists |-> FALSE, decodes |-> FALSE, cols |-> {}, rows |-> <<>>]

\* the first path of a list that exists in the files f, None when none does
FirstExisting(f, paths) ==
    LET found == SelectSeq(paths, LAMBDA p : f[p].exists)
    IN  IF found = <<>> THEN None ELSE found[1]

\* the path resolve_dashboard_path finds by looking at the environment env
\* and the files f: the bundle file, the first user folder's file that
\* exists, or the fallback path, which need not exist
ProbedPath(f, env) ==
    LET app_path == env.APP_PATH
        bundle == IF app_path # "" THEN <<ExportsUnder(app_path)>> ELSE <<>>
        user_folders == SelectSeq(UserFolders, LAMBDA d : f[d].exists)
        targets == [i \in DOMAIN user_folders |-> TargetUnder(user_folders[i])]
        search_paths == bundle \o targets
        found == FirstExisting(f, search_paths)
        fallback_path == IF user_folders # <<>>
                         THEN ExportsUnder(user_folders[1])
                         ELSE ExportsUnder(HomeDir)
    IN  IF found # None THEN found ELSE fallback_path

\* variant of the resolver that does not remember the fallback path
resolve_dashboard_path_ForgetsFallback(f, env, dflt) ==
    IF dflt # None
    THEN [r |-> dflt, dflt |-> dflt, probed |-> FALSE]
    ELSE LET path == ProbedPath(f, env)
         IN  [r |-> path, dflt |-> IF f[path].exists THEN path ELSE None,
              probed |-> TRUE]

\* resolve_dashboard_path in the files f and the environment env, with
\* _default_dashboard_path = dflt.  Yields the path returned (r), the new
\* value of _default_dashboard_path (dflt) and whether the environment and
\* the file system were looked at (probed).
resolve_dashboard_path(f, env, dflt) ==
    IF dflt # None
    THEN [r |-> dflt, dflt |-> dflt, probed |-> FALSE]
    ELSE LET path == ProbedPath(f, env)
         IN  [r |-> path, dflt |-> path, probed |-> TRUE]

\* resolve_dashboard_path of backend/main.py, in the files f and the
\* environment env: the file PMSUITE_DASHBOARD_FILE names if it exists, the
\* first of three locations under the working directory that exists, or
\* the bare file name
MainFallbackPaths ==
    <<ExportsUnder("."), ExportsUnder(".."), ExportsUnder("./ProjectManager")>>

main_resolve_dashboard_path(f, env) ==
    IF env.PMSUITE_DASHBOARD_FILE # "" /\ FileAt(f, env.PMSUITE_DASHBOARD_FILE).exists
    THEN env.PMSUITE_DASHBOARD_FILE
    ELSE LET found == SelectSeq(MainFallbackPaths, LAMBDA p : FileAt(f, p).exists)
         IN  IF found # <<>> THEN found[1] ELSE "dashboard.csv"

(***************************************************************************)
(* load_and_process_data                                                   *)
(***************************************************************************)
\* the alternative locations the loader tries when the path has no file
AltPaths == <<ExportsUnder("."), ExportsUnder("..")>>

\* pd.DataFrame(dict of lists): ValueError unless the lists are equally long
DataFrameOfDict(d) ==
    IF \E c1, c2 \in DOMAIN d : Len(d[c1]) # Len(d[c2])
    THEN Raise("ValueError")
    ELSE LET n == Len(d[CHOOSE c \in DOMAIN d : TRUE])
         IN  Ok(DataFrame(DOMAIN d, [i \in 1..n |-> [c \in DOMAIN d |-> d[c][i]]]))

\* the DataFrame({"error": [...]}) of a failed load
ErrorDf == DataFrame({"error"}, << [error |-> "load failed"] >>)

\* the DataFrame the loader builds when no location has a file
NotFoundDict ==
    [error_message |-> <<"not found">>,
     additional_info |-> <<"also checked">> \o AltPaths]

\* the DataFrame({"error": [...], "details": [...]}) of a file that no
\* encoding reads
UnreadableDict == [error |-> <<"read failed">>, details |-> <<"encodings">>]

\* the directories of the paths that end in dashboard.csv
DashboardDirs ==
    {"/data/"} \cup
    {d \o "/data/exports/" :
        d \in {AppDir, HomeDir, ".", ".."}
              \cup {UserFolders[i] : i \in DOMAIN UserFolders}
              \cup {UserFolders[i] \o "/ProjectSuite/ProjectManager" :
                      i \in DOMAIN UserFolders}}

\* str(dashboard_path).replace('dashboard.csv', 'projects.csv'): a path
\* without that name is left as it is
projects_file_path(dashboard_path) ==
    IF \E d \in DashboardDirs : dashboard_path = d \o "dashboard.csv"
    THEN (CHOOSE d \in DashboardDirs : dashboard_path = d \o "dashboard.csv")
         \o "projects.csv"
    ELSE dashboard_path

\* the dtype read_csv gives the project_id column
IdDtype(rows) ==
    IF rows # <<>> /\ \A i \in DOMAIN rows : rows[i].project_id.t = "int"
    THEN "int64" ELSE "object"

PathCols == {"project_path", "ganttchart_path"}

\* the rows of a merge of the task rows with the rows of the projects
\* table: a task row once for every projects row with its project_id, and,
\* if keep_unmatched, once with null paths when there is none
RECURSIVE MergedRows(_, _, _)
MergedRows(rows, projects, keep_unmatched) ==
    IF rows = <<>> THEN <<>>
    ELSE LET r == Head(rows)
             matches == SelectSeq(projects, LAMBDA q : q.project_id = r.project_id)
             joined == [j \in DOMAIN matches |->
                          [c \in DOMAIN r \cup PathCols |->
                              IF c \in PathCols THEN matches[j][c] ELSE r[c]]]
             alone == [c \in DOMAIN r \cup PathCols |->
                          IF c \in PathCols THEN NullStr ELSE r[c]]
         IN  (IF matches # <<>> THEN joined
              ELSE IF keep_unmatched THEN <<alone>> ELSE <<>>)
             \o MergedRows(Tail(rows), projects, keep_unmatched)

\* variant of the merge with how='inner'
merge_left_Inner(df, projects_df) ==
    IF ~({"project_id"} \cup PathCols \subseteq projects_df.cols)
       \/ "project_id" \notin df.cols
    THEN Raise("KeyError")
    ELSE IF IdDtype(df.rows) # IdDtype(projects_df.rows)
    THEN Raise("ValueError")
    ELSE Ok(DataFrame(df.cols \cup PathCols,
                      MergedRows(df.rows, projects_df.rows, FALSE)))

\* pd.merge(df, projects_df[['project_id', 'project_path',
\* 'ganttchart_path']], on='project_id', how='left'), for a df without path
\* columns: KeyError for a column that is not there, ValueError for keys of
\* an int64 and an object column
merge_left(df, projects_df) ==
    IF ~({"project_id"} \cup PathCols \subseteq projects_df.cols)
       \/ "project_id" \notin df.cols
    THEN Raise("KeyError")
    ELSE IF IdDtype(df.rows) # IdDtype(projects_df.rows)
    THEN Raise("ValueError")
    ELSE Ok(DataFrame(df.cols \cup PathCols,
                      MergedRows(df.rows, projects_df.rows, TRUE)))

\* what the loader makes of df given the file pf at the projects path: a
\* file that is not there, is not read or is not merged leaves df as read
MergedWith(df, pf) ==
    IF ~pf.exists \/ ~pf.decodes THEN df
    ELSE IF merge_left(df, DataFrame(pf.cols, pf.rows)).raised THEN df
    ELSE merge_left(df, DataFrame(pf.cols, pf.rows)).val

\* the part of the loader after the file at dashboard_path was read
with_projects(f, dashboard_path) ==
    MergedWith(DataFrame(f[dashboard_path].cols, f[dashboard_path].rows),
               FileAt(f, projects_file_path(dashboard_path)))

\* the body of the try block of load_and_process_data
load_and_process_data_try(f, path) ==
    LET dashboard_path == IF f[path].exists THEN path
                          ELSE FirstExisting(f, AltPaths)
    IN  IF dashboard_path = None THEN DataFrameOfDict(NotFoundDict)
        ELSE IF ~f[dashboard_path].decodes THEN DataFrameOfDict(UnreadableDict)
        ELSE Ok(with_projects(f, dashboard_path))

\* load_and_process_data without the decorator, on the files f, for a path
\* that is given: try / except Exception
load_and_process_data(f, path) ==
    LET r == load_and_process_data_try(f, path)
    IN  IF r.raised THEN Ok(ErrorDf) ELSE r

\* load_and_process_data(None): the path comes from the resolver
load_default_path(f, env, dflt) ==
    LET v == resolve_dashboard_path(f, env, dflt)
    IN  [dflt |-> v.dflt, path |-> v.r, r |-> load_and_process_data(f, v.r)]

\* load_and_process_data of backend/models/project_dashboard.py, the module
\* the first API (backend/main.py) imports: no alternative locations
project_dashboard_load_and_process_data(f, path) ==
    IF ~f[path].exists
    THEN DataFrameOfDict([error_message |-> <<"not found">>])
    ELSE IF ~f[path].decodes THEN DataFrameOfDict(UnreadableDict)
    ELSE Ok(with_projects(f, path))

cached_load_and_process_data(st, t, f, path) ==
    wrapper(st, t, Join(<<"load_and_process_data", path>>), Ttl60,
            Pure(Missed(st), load_and_process_data(f, path)))

cached_calculate_progress(st, t, df) ==
    wrapper(st, t, Join(<<"calculate_progress">>), Ttl60,
            Pure(Missed(st), calculate_progress(df, t)))

cached_get_delayed_projects_count(st, t, df) ==
    wrapper(st, t, Join(<<"get_delayed_projects_count">>), Ttl60,
            Pure(Missed(st), get_delayed_projects_count(df, t)))

(***************************************************************************)
(* get_next_milestone, next_milestone_format                               *)
(***************************************************************************)
\* sort_values('task_finish_date'): ascending, NaT last, equal keys keep order
FinishBefore(a, b) ==
    /\ ~IsNaT(a.task_finish_date)
    /\ (IsNaT(b.task_finish_date) \/ a.task_finish_date < b.task_finish_date)

RECURSIVE SortByFinish(_)
SortByFinish(rows) ==
    IF rows = <<>> THEN <<>>
    ELSE LET n == Len(rows)
             last == rows[n]
             init == SortByFinish(SubSeq(rows, 1, n - 1))
             k == Cardinality({i \in DOMAIN init : ~FinishBefore(last, init[i])})
         IN  SubSeq(init, 1, k) \o <<last>> \o SubSeq(init, k + 1, Len(init))

\* the filter and the sort of get_next_milestone
milestone_rows(df, t, include_past) ==
    IF ~({"task_milestone", "task_finish_date"} \subseteq df.cols)
    THEN Raise("KeyError")
    ELSE Ok(DataFrame(df.cols, SortByFinish(SelectSeq(df.rows, LAMBDA r :
            /\ r.task_milestone = MARK
            /\ (include_past \/
                (~IsNaT(r.task_finish_date) /\ r.task_finish_date > t))))))

\* get_next_milestone(df, True): the call made by the function itself when
\* the future-only result is empty; True is a positional scalar of the key
cached_get_next_milestone_retry(st, t, df) ==
    wrapper(st, t, Join(<<"get_next_milestone", "True">>), Ttl60,
            Pure(Missed(st), milestone_rows(df, t, TRUE)))

\* get_next_milestone without the decorator, in module state s
get_next_milestone(s, t, df, include_past) ==
    LET m == milestone_rows(df, t, include_past)
    IN  IF m.raised THEN Pure(s, m)
        ELSE IF m.val.rows = <<>> /\ ~include_past
        THEN LET w == cached_get_next_milestone_retry(s, t, df)
             IN  [st |-> w.st, r |-> w.r]
        ELSE Pure(s, m)

\* get_next_milestone(df) and get_next_milestone(df, include_past=...): a
\* keyword argument is not part of the key
cached_get_next_milestone(st, t, df, include_past) ==
    wrapper(st, t, Join(<<"get_next_milestone">>), Ttl60,
            get_next_milestone(Missed(st), t, df, include_past))

NoLabel == [kind |-> "-", name |-> "", n |-> 0]

\* the label of a milestone named task_name that finishes at next_date
FormatLabel(task_name, next_date, t) ==
    LET days_diff == (next_date - t) \div DayLen   \* timedelta.days: floor
    IN  IF IsNaT(next_date)
        THEN [kind |-> "nodate", name |-> task_name, n |-> 0]
        ELSE IF days_diff > 0
        THEN [kind |-> "later", name |-> task_name, n |-> days_diff]
        ELSE IF days_diff < 0
        THEN [kind |-> "ago", name |-> task_name, n |-> -days_diff]
        ELSE [kind |-> "today", name |-> task_name, n |-> 0]

next_milestone_format(next_milestones, project_id, t) ==
    IF "project_id" \notin next_milestones.cols THEN Raise("KeyError")
    ELSE LET milestone == SelectSeq(next_milestones.rows,
                                    LAMBDA r : str(r.project_id) = project_id)
         IN  IF milestone = <<>> THEN Ok(NoLabel)
             ELSE IF "task_name" \notin next_milestones.cols THEN Ok(NoLabel)
             ELSE Ok(FormatLabel(milestone[1].task_name,
                                 milestone[1].task_finish_date, t))

(***************************************************************************)
(* The request handlers get_projects and get_project                       *)
(***************************************************************************)
\* variant of the id set without astype(str): a number never equals the
\* string it is compared with
DelayedProjectIds_Raw(delayed) ==
    {delayed.rows[i].project_id.s : i \in DOMAIN delayed.rows}

\* set(delayed_tasks_df['project_id'].astype(str).unique())
DelayedProjectIds(delayed) ==
    {str(delayed.rows[i].project_id) : i \in DOMAIN delayed.rows}

\* the columns get_projects prints of the first delayed tasks
SampleCols == {"project_id", "task_id", "task_name", "task_finish_date",
               "task_status"}

\* the test of has_delay in both handlers
HasDelay(project_id_str, delayed_project_ids) ==
    project_id_str \in delayed_project_ids

\* Project(...) of one rollup row; KeyError when the rollup has no process
\* or line column, or when the label cannot be formatted
MakeProject(progress_data, row, next_milestones, delayed_project_ids, t) ==
    LET project_id_str == str(row.project_id)
        label == next_milestone_format(next_milestones, project_id_str, t)
    IN  IF label.raised THEN label
        ELSE IF ~({"process", "line"} \subseteq progress_data.cols)
        THEN Raise("KeyError")
        ELSE Ok([project_id |-> project_id_str,
                 project_name |-> row.project_name,
                 total_tasks |-> row.total_tasks,
                 completed_tasks |-> row.completed_tasks,
                 milestone_count |-> row.milestone_count,
                 start_date |-> row.start_date,
                 end_date |-> row.end_date,
                 progress |-> row.progress,
                 duration |-> row.duration,
                 next_milestone |-> label.val,
                 has_delay |-> HasDelay(project_id_str, delayed_project_ids)])

\* the part of both handlers up to the three tables they combine:
\* [st, r] with r = Ok([df, delayed, progress_data, next_milestones]);
\* get_projects also prints a sample of the delayed tasks (logs_sample)
CombineTables(st1, df, d, w2, w3, logs_sample) ==
    IF d.raised THEN [st |-> st1, r |-> d]
    ELSE IF "project_id" \notin df.cols
    THEN [st |-> st1, r |-> Raise("KeyError")]
    ELSE IF logs_sample /\ d.val.rows # <<>> /\ ~(SampleCols \subseteq df.cols)
    THEN [st |-> st1, r |-> Raise("KeyError")]
    ELSE IF w3.r.raised THEN [st |-> w3.st, r |-> w3.r]
    ELSE [st |-> w3.st,
          r |-> Ok([df |-> df, delayed |-> d.val,
                    progress_data |-> w2.r.val,
                    next_milestones |-> w3.r.val])]

\* the tables of the record set df, computed from module state st1, given
\* the run w2 of calculate_progress
TablesOf(st1, df, w2, t, logs_sample) ==
    CombineTables(st1, df, check_delays(df, t), w2,
                  cached_get_next_milestone(w2.st, t, df, TRUE), logs_sample)

\* given the run w1 of the loader
TablesFrom(w1, t, logs_sample) ==
    TablesOf(w1.st, w1.r.val, cached_calculate_progress(w1.st, t, w1.r.val),
             t, logs_sample)

LoadTables(st, t, f, path, logs_sample) ==
    TablesFrom(cached_load_and_process_data(st, t, f, path), t, logs_sample)

\* get_projects: a row whose Project(...) raises is logged and left out
get_projects(st, t, f, path) ==
    LET l == LoadTables(st, t, f, path, TRUE)
    IN  IF l.r.raised THEN [st |-> l.st, r |-> Raise("HTTP 500")]
        ELSE LET v == l.r.val
                 ids == DelayedProjectIds(v.delayed)
                 made == [i \in DOMAIN v.progress_data.rows |->
                            MakeProject(v.progress_data, v.progress_data.rows[i],
                                        v.next_milestones, ids, t)]
                 kept == SelectSeq(made, LAMBDA m : ~m.raised)
             IN  [st |-> l.st, r |-> Ok([i \in DOMAIN kept |-> kept[i].val])]

\* get_project: 404 when the rollup has no row of that id
get_project(st, t, f, path, project_id) ==
    LET l == LoadTables(st, t, f, path, FALSE)
    IN  IF l.r.raised THEN [st |-> l.st, r |-> Raise("HTTP 500")]
        ELSE LET v == l.r.val
                 ids == DelayedProjectIds(v.delayed)
                 project_data == SelectSeq(v.progress_data.rows,
                                   LAMBDA r : str(r.project_id) = project_id)
             IN  IF project_data = <<>> THEN [st |-> l.st, r |-> Raise("HTTP 404")]
                 ELSE LET m == MakeProject(v.progress_data, project_data[1],
                                           v.next_milestones, ids, t)
                      IN  IF m.raised THEN [st |-> l.st, r |-> Raise("HTTP 500")]
                          ELSE [st |-> l.st, r |-> Ok(<<m.val>>)]

(***************************************************************************)
(* get_recent_tasks                                                        *)
(***************************************************************************)
\* a slot of the result: None, or a task name with a number of days
NoTask == [null |-> TRUE, name |-> "", days |-> 0]
TaskSlot(name, days) == [null |-> FALSE, name |-> name, days |-> days]

AllNull == [delayed |-> NoTask, in_progress |-> NoTask,
            next_task |-> NoTask, next_next_task |-> NoTask]

\* sort_values('task_start_date'): ascending, NaT last, equal keys keep order
StartBefore(a, b) ==
    /\ ~IsNaT(a.task_start_date)
    /\ (IsNaT(b.task_start_date) \/ a.task_start_date < b.task_start_date)

RECURSIVE SortByStart(_)
SortByStart(rows) ==
    IF rows = <<>> THEN <<>>
    ELSE LET n == Len(rows)
             last == rows[n]
             init == SortByStart(SubSeq(rows, 1, n - 1))
             k == Cardinality({i \in DOMAIN init : ~StartBefore(last, init[i])})
         IN  SubSeq(init, 1, k) \o <<last>> \o SubSeq(init, k + 1, Len(init))

\* progress_mask: the comparisons are of calendar days, NaT compares False
IsInProgressRow(r, t) ==
    /\ r.task_status # DONE
    /\ ~IsNaT(r.task_start_date) /\ dt_date(r.task_start_date) <= dt_date(t)
    /\ ~IsNaT(r.task_finish_date) /\ dt_date(r.task_finish_date) >= dt_date(t)

\* next_mask
IsNextRow(r, t) ==
    /\ r.task_status # DONE
    /\ ~IsNaT(r.task_start_date) /\ dt_date(r.task_start_date) > dt_date(t)

\* variant of next_tasks that keeps the order of the file
next_tasks_Unsorted(project_tasks, t) ==
    SelectSeq(project_tasks, LAMBDA r : IsNextRow(r, t))

\* next_tasks = project_tasks[next_mask].sort_values('task_start_date')
next_tasks(project_tasks, t) ==
    SortByStart(SelectSeq(project_tasks, LAMBDA r : IsNextRow(r, t)))

\* the dict built from the three sorted selections
RecentOf(delayed_tasks, in_progress_tasks, nexts, t) ==
    [delayed |->
        IF delayed_tasks = <<>> THEN NoTask
        ELSE TaskSlot(delayed_tasks[1].task_name,
                      dt_date(t) - dt_date(delayed_tasks[1].task_finish_date)),
     in_progress |->
        IF in_progress_tasks = <<>> THEN NoTask
        ELSE TaskSlot(in_progress_tasks[1].task_name,
                      dt_date(in_progress_tasks[1].task_finish_date) - dt_date(t)),
     next_task |->
        IF Len(nexts) = 0 THEN NoTask
        ELSE TaskSlot(nexts[1].task_name,
                      dt_date(nexts[1].task_start_date) - dt_date(t)),
     next_next_task |->
        IF Len(nexts) <= 1 THEN NoTask
        ELSE TaskSlot(nexts[2].task_name,
                      dt_date(nexts[2].task_start_date) - dt_date(t))]

\* the selections made of the tasks of the project
RecentOfTasks(project_tasks, t) ==
    RecentOf(SortByFinish(SelectSeq(project_tasks, LAMBDA r : IsDelayedRow(r, t))),
             SortByFinish(SelectSeq(project_tasks, LAMBDA r : IsInProgressRow(r, t))),
             next_tasks(project_tasks, t), t)

\* the body of the try block of get_recent_tasks
get_recent_tasks_try(df, project_id, t) ==
    IF "project_id" \notin df.cols THEN Raise("KeyError")
    ELSE IF ~\E i \in DOMAIN df.rows : str(df.rows[i].project_id) = project_id
    THEN Ok(AllNull)
    ELSE IF ~({"task_finish_date", "task_status", "task_start_date"}
              \subseteq df.cols)
    THEN Raise("KeyError")
    ELSE IF "task_name" \notin df.cols
            /\ \E i \in DOMAIN df.rows :
                 /\ str(df.rows[i].project_id) = project_id
                 /\ \/ IsDelayedRow(df.rows[i], t)
                    \/ IsInProgressRow(df.rows[i], t)
                    \/ IsNextRow(df.rows[i], t)
    THEN Raise("KeyError")
    ELSE Ok(RecentOfTasks(SelectSeq(df.rows,
                LAMBDA r : str(r.project_id) = project_id), t))

\* get_recent_tasks without the decorator: try / except Exception
get_recent_tasks(df, project_id, t) ==
    Ok(IF get_recent_tasks_try(df, project_id, t).raised THEN AllNull
       ELSE get_recent_tasks_try(df, project_id, t).val)

cached_get_recent_tasks(st, t, df, project_id) ==
    wrapper(st, t, Join(<<"get_recent_tasks", project_id>>), Ttl30,
            Pure(Missed(st), get_recent_tasks(df, project_id, t)))

(***************************************************************************)
(* get_project_milestones and the milestone operations                     *)
(***************************************************************************)
\* the status of a milestone row at time t
MilestoneStatusOf(row, has_start, t) ==
    LET current_date == dt_date(t) * DayLen   \* now().replace(hour=0, ...)
    IN  IF row.task_status = DONE THEN "completed"
        ELSE IF current_date > row.task_finish_date THEN "delayed"
        ELSE IF /\ has_start
                /\ ~IsNaT(row.task_start_date)
                /\ current_date >= row.task_start_date
        THEN "in-progress"
        ELSE "not-started"

\* the columns the loop of get_project_milestones reads of every row
MilestoneRowCols == {"task_id", "task_finish_date", "task_status",
                     "task_name", "project_id"}

\* the rows of milestone_df of the project of row that finish before
\* start_date; a comparison with NaT is False
prior_milestones(milestone_df, row, start_date) ==
    SelectSeq(milestone_df, LAMBDA r :
        /\ r.project_id = row.project_id
        /\ ~IsNaT(r.task_finish_date) /\ ~IsNaT(start_date)
        /\ r.task_finish_date < start_date)

\* sort_values('task_finish_date', ascending=False).iloc[0]: the row with
\* the latest finish date, the first of them in the order of the table
latest_milestone(prior) ==
    prior[CHOOSE i \in DOMAIN prior :
            /\ \A j \in DOMAIN prior :
                  prior[j].task_finish_date <= prior[i].task_finish_date
            /\ \A j \in 1..(i - 1) :
                  prior[j].task_finish_date < prior[i].task_finish_date]

\* the dependencies of the milestone of row: none when the table has no
\* task_start_date column (start_date is None), else the latest of the prior
\* milestones when there is one
DependenciesOf(milestone_df, row, has_start) ==
    LET prior == IF has_start
                 THEN prior_milestones(milestone_df, row, row.task_start_date)
                 ELSE <<>>
    IN  IF prior = <<>> THEN <<>>
        ELSE <<"m-" \o latest_milestone(prior).task_id>>

\* the milestone object of one row of milestone_df
MilestoneOf(milestone_df, row, has_start, t) ==
    [id |-> "m-" \o row.task_id,
     name |-> row.task_name,
     planned_date |-> row.task_finish_date,
     status |-> MilestoneStatusOf(row, has_start, t),
     dependencies |-> DependenciesOf(milestone_df, row, has_start),
     project_id |-> str(row.project_id)]

\* the body of the outer try block of get_project_milestones; a row whose
\* processing raises, or that has no finish date, is skipped
get_project_milestones_try(df, project_id, t) ==
    IF df.rows = <<>> \/ df.cols = {} \/ "error" \in df.cols THEN Ok(<<>>)
    ELSE IF "task_milestone" \notin df.cols THEN Raise("KeyError")
    ELSE IF project_id # None /\ "project_id" \notin df.cols THEN Raise("KeyError")
    ELSE LET milestone_df == SelectSeq(df.rows, LAMBDA r :
                 /\ r.task_milestone = MARK
                 /\ (project_id = None \/ str(r.project_id) = project_id))
             kept == SelectSeq(milestone_df, LAMBDA r :
                 /\ MilestoneRowCols \subseteq df.cols
                 /\ ~IsNaT(r.task_finish_date))
         IN  Ok([i \in DOMAIN kept |->
                   MilestoneOf(milestone_df, kept[i],
                               "task_start_date" \in df.cols, t)])

\* get_project_milestones without the decorator: try / except Exception
get_project_milestones(df, project_id, t) ==
    LET r == get_project_milestones_try(df, project_id, t)
    IN  IF r.raised THEN Ok(<<>>) ELSE r

\* get_project_milestones(df, project_id): a project_id that is a string is
\* a positional scalar of the key, None is not
cached_get_project_milestones(st, t, df, project_id) ==
    wrapper(st, t,
            Join(<<"get_project_milestones">> \o
                 (IF project_id = None THEN <<>> ELSE <<project_id>>)),
            Ttl60,
            Pure(Missed(st), get_project_milestones(df, project_id, t)))

\* GET /milestones: [st, r]
get_milestones(st, t, f, path, project_id) ==
    LET w1 == cached_load_and_process_data(st, t, f, path)
        w2 == cached_get_project_milestones(w1.st, t, w1.r.val, project_id)
    IN  [st |-> w2.st, r |-> w2.r]

\* create_milestone, update_milestone and delete_milestone load the record
\* set and answer; f is the files they leave on disk
create_milestone(st, t, f, path, milestone) ==
    LET w == cached_load_and_process_data(st, t, f, path)
    IN  [st |-> w.st, r |-> Ok(milestone), f |-> f]

update_milestone(st, t, f, path, milestone_id, milestone) ==
    LET w == cached_load_and_process_data(st, t, f, path)
    IN  [st |-> w.st, r |-> Ok(milestone), f |-> f]

\* PUT /milestones/{milestone_id}: 400 when the ids differ
update_existing_milestone(st, t, f, path, milestone_id, milestone) ==
    IF milestone_id # milestone.id
    THEN [st |-> st, r |-> Raise("HTTP 400"), f |-> f]
    ELSE update_milestone(st, t, f, path, milestone_id, milestone)

\* variant of delete_milestone that clears the milestone mark of the task
\* in the CSV
delete_milestone_ClearsMark(st, t, f, path, milestone_id) ==
    LET w == cached_load_and_process_data(st, t, f, path)
        cleared == [i \in DOMAIN f[path].rows |->
                      IF "m-" \o f[path].rows[i].task_id = milestone_id
                      THEN [f[path].rows[i] EXCEPT !.task_milestone = NullStr]
                      ELSE f[path].rows[i]]
    IN  [st |-> w.st, r |-> Ok([success |-> TRUE]),
         f |-> [f EXCEPT ![path].rows = cleared]]

delete_milestone(st, t, f, path, milestone_id) ==
    LET w == cached_load_and_process_data(st, t, f, path)
    IN  [st |-> w.st, r |-> Ok([success |-> TRUE]), f |-> f]

(***************************************************************************)
(* The files and the module state                                          *)
(***************************************************************************)
PathA == "/a.csv"
PathB == "/b.csv"
PathMissing == "/missing.csv"          \* no file at this path
Paths == {PathA, PathB, PathMissing}

\* every path the loader and the resolver may look at
ResolverPaths ==
    {ExportsUnder(AppDir), ExportsUnder(HomeDir)}
    \cup {UserFolders[i] : i \in DOMAIN UserFolders}
    \cup {TargetUnder(UserFolders[i]) : i \in DOMAIN UserFolders}
    \cup {ExportsUnder(UserFolders[i]) : i \in DOMAIN UserFolders}
\* a dashboard file and the projects file next to it
PathDash == "/data/" \o "dashboard.csv"
PathProj == "/data/" \o "projects.csv"

AllPaths == Paths \cup ResolverPaths \cup {AltPaths[i] : i \in DOMAIN AltPaths}
            \cup {PathDash, PathProj}

NoFile == [exists |-> FALSE, decodes |-> FALSE, cols |-> {}, rows |-> <<>>]
File(cols, rows) == [exists |-> TRUE, decodes |-> TRUE, cols |-> cols, rows |-> rows]
\* a file that pd.read_csv reads under none of the encodings
Unreadable == [exists |-> TRUE, decodes |-> FALSE, cols |-> {}, rows |-> <<>>]
\* a folder
Folder == [exists |-> TRUE, decodes |-> FALSE, cols |-> {}, rows |-> <<>>]

\* two task tables with different projects
FileA == File(TaskCols,
    << MkRow(PidStr("P1"), "T1", "design", DONE, 0, 1, MARK),
       MkRow(PidStr("P1"), "T2", "build", "open", 0, 1, NullStr) >>)
FileB == File(TaskCols,
    << MkRow(PidStr("P2"), "T3", "release", "open", 2, 5, MARK) >>)

TwoFiles == [p \in AllPaths |-> IF p = PathA THEN FileA
                             ELSE IF p = PathB THEN FileB ELSE NoFile]

St == [cache |-> cache, stats |-> stats]

\* the key and the ttl of a call of function fn on the record set of path p
\* with the scalar positional argument arg ("" when there is none)
KeyOf(fn, p, arg) ==
    IF fn = "load_and_process_data" THEN Join(<<fn, p>>)
    ELSE IF arg = "" THEN Join(<<fn>>)
    ELSE Join(<<fn, arg>>)
TtlOf(fn) == IF fn = "get_recent_tasks" THEN Ttl30 ELSE Ttl60

\* what a call found stored under its key when it was made
NoEntry == [found |-> FALSE, age |-> 0, data |-> 0]
EntryOf(c, key, t) ==
    LET i == KeyIndex(c, key)
    IN  IF i = 0 THEN NoEntry
        ELSE [found |-> TRUE, age |-> t - c[i].ts, data |-> c[i].data]

(***************************************************************************)
(* system_health: the readiness of the application                         *)
(***************************************************************************)
\* the components the module knows when it is imported
Components == {"server", "pandas", "async_loader"}

\* initialization_state as the module, and reset_initialization_state, make
\* it at time t
StateAtImport(t) ==
    [status |-> "initializing", progress |-> 0, start_time |-> t,
     components |-> [c \in Components |-> FALSE], details |-> <<>>]

\* dict[key] = value
SetItem(d, key, value) == [k \in DOMAIN d \cup {key} |-> IF k = key THEN value ELSE d[k]]

\* sum(1 for v in components.values() if v)
ready_components(components) ==
    Cardinality({c \in DOMAIN components : components[c]})

\* int(100 * ready_components / total_components)
progress_percent(components) ==
    (100 * ready_components(components)) \div Cardinality(DOMAIN components)

\* get_readiness_status at time t: [st, r], the state it leaves and the
\* response
get_readiness_status(st, t) ==
    LET total_components == Cardinality(DOMAIN st.components)
        progress == IF total_components > 0 THEN progress_percent(st.components) ELSE 0
        status ==
            IF (\A c \in DOMAIN st.components : st.components[c])
               /\ total_components > 0
            THEN "complete"
            ELSE IF \E c \in DOMAIN st.components : st.components[c]
            THEN "partial"
            ELSE st.status
        response == [readiness |-> status, progress |-> progress,
                     components |-> st.components,
                     elapsed_seconds |-> t - st.start_time]
    IN  [st |-> [st EXCEPT !.progress = progress, !.status = status],
         r |-> Ok(IF DOMAIN st.details # {}
                  THEN [k \in DOMAIN response \cup {"details"} |->
                          IF k = "details" THEN st.details ELSE response[k]]
                  ELSE response)]

\* register_component_ready(component_name, details); details is a dict, and
\* one without entries counts as no details
register_component_ready(st, component_name, details) ==
    LET components == SetItem(st.components, component_name, TRUE)
    IN  [st EXCEPT
           !.components = components,
           !.details = IF DOMAIN details # {}
                       THEN SetItem(st.details, component_name, details)
                       ELSE @,
           !.progress = progress_percent(components),
           !.status = IF \A c \in DOMAIN components : components[c]
                      THEN "complete" ELSE "partial"]

\* set_component_error(component_name, error_details)
set_component_error(st, component_name, error_details) ==
    [st EXCEPT
       !.components = IF component_name \in DOMAIN st.components THEN @
                      ELSE SetItem(@, component_name, FALSE),
       !.details = SetItem(@, component_name, [error |-> error_details]),
       !.status = "error"]

\* reset_initialization_state at time t
reset_initialization_state(t) == StateAtImport(t)

\* the quotient num / den of Python's true division, kept exact
Ratio(num, den) == [num |-> num, den |-> den]

\* the record of the last call: its arguments (fn, path, arg, kw), its
\* result r, the time at of the call, what the wrapper did (ran, hit,
\* evicted), and what the module state was when it was made (entry, before)
NoOut == [fn |-> "none", path |-> "", arg |-> "", kw |-> FALSE, r |-> Ok(0),
          at |-> 0, ran |-> FALSE, hit |-> FALSE, evicted |-> FALSE,
          entry |-> NoEntry,
          before |-> [items |-> 0, hits |-> 0, misses |-> 0,
                      hit_ratio |-> Ratio(0, 1)]]

\* get_cache_stats: the size of the store, the two counters and the share of
\* hits among the calls in percent (the int 0 before the first call)
get_cache_stats(st) ==
    [items |-> Len(st.cache), hits |-> st.stats.hits, misses |-> st.stats.misses,
     hit_ratio |-> IF st.stats.hits + st.stats.misses > 0
                   THEN Ratio(st.stats.hits * 100,
                              st.stats.hits + st.stats.misses)
                   ELSE Ratio(0, 1)]

\* the record set a caller holds for a path: what the loader makes of it
DfOf(p) == load_and_process_data(fs, p).val

CallsLeft == stats.hits + stats.misses < MaxCalls

\* the effect of one memoized call w on the module state
Returns(w, fn, p, arg, kw) ==
    /\ cache' = w.st.cache
    /\ stats' = w.st.stats
    /\ out' = [fn |-> fn, path |-> p, arg |-> arg, kw |-> kw, r |-> w.r,
               at |-> now, ran |-> w.ran, hit |-> w.hit, evicted |-> w.evicted,
               entry |-> EntryOf(cache, KeyOf(fn, p, arg), now),
               before |-> get_cache_stats(St)]
    /\ UNCHANGED <<now, fs, environ, default_dashboard_path, pc, loc,
                 initialization_state>>

(***************************************************************************)
(* Sequential calls of the memoized functions                              *)
(***************************************************************************)
Tick ==
    /\ now < MaxTime
    /\ now' = now + 1
    /\ UNCHANGED <<fs, environ, default_dashboard_path, cache, stats, out, pc, loc,
                 initialization_state>>

CallLoad(p) ==
    /\ CallsLeft
    /\ Returns(cached_load_and_process_data(St, now, fs, p),
               "load_and_process_data", p, "", FALSE)

CallCalculateProgress(p) ==
    /\ CallsLeft
    /\ Returns(cached_calculate_progress(St, now, DfOf(p)),
               "calculate_progress", p, "", FALSE)

CallDelayedCount(p) ==
    /\ CallsLeft
    /\ Returns(cached_get_delayed_projects_count(St, now, DfOf(p)),
               "get_delayed_projects_count", p, "", FALSE)

\* get_next_milestone(df) and get_next_milestone(df, include_past=True)
CallNextMilestone(p, include_past) ==
    /\ CallsLeft
    /\ Returns(cached_get_next_milestone(St, now, DfOf(p), include_past),
               "get_next_milestone", p, "", include_past)

\* get_next_milestone(df, True)
CallNextMilestonePositional(p) ==
    /\ CallsLeft
    /\ Returns(cached_get_next_milestone_retry(St, now, DfOf(p)),
               "get_next_milestone", p, "True", FALSE)

ClearCache ==
    /\ cache' = clear_cache(St).st.cache
    /\ out' = [NoOut EXCEPT !.fn = "clear_cache", !.r = clear_cache(St).r,
                            !.at = now, !.before = get_cache_stats(St)]
    /\ UNCHANGED <<now, fs, environ, default_dashboard_path, stats, pc, loc,
                 initialization_state>>

Init ==
    /\ now = 0
    /\ fs = TwoFiles
    /\ environ = NoEnviron
    /\ default_dashboard_path = None
    /\ cache = <<>>
    /\ stats = [hits |-> 0, misses |-> 0]
    /\ out = NoOut
    /\ pc = <<>>
    /\ loc = <<>>
    /\ initialization_state = StateAtImport(0)

Next ==
    \/ Tick
    \/ \E p \in Paths : CallLoad(p)
    \/ \E p \in Paths : CallCalculateProgress(p)
    \/ \E p \in Paths : CallDelayedCount(p)
    \/ \E p \in Paths, ip \in BOOLEAN : CallNextMilestone(p, ip)
    \/ \E p \in Paths : CallNextMilestonePositional(p)
    \/ ClearCache

Spec == Init /\ [][Next]_vars

(***************************************************************************)
(* Claims about the memoization layer (specification Spec)                 *)
(***************************************************************************)
IsCallOut == out.fn \notin {"none", "clear_cache"}

\* C1 (as claimed): a call whose key has a stored entry younger than its ttl
\* returns the stored result without running the wrapped function and
\* increments the hit counter only; a call whose stored entry has reached
\* the ttl runs the wrapped function and increments the miss counter only.
C1_HitThenMissAccounting ==
    IsCallOut /\ out.entry.found =>
        IF out.entry.age < TtlOf(out.fn)
        THEN /\ ~out.ran
             /\ out.r = Ok(out.entry.data)
             /\ stats.hits = out.before.hits + 1
             /\ stats.misses = out.before.misses
        ELSE /\ out.ran
             /\ stats.misses > out.before.misses
             /\ stats.hits = out.before.hits

\* C2 (as claimed): the result of a call of calculate_progress,
\* get_delayed_projects_count or get_next_milestone on the record set of a
\* path is a result the wrapped function computes on that record set (at
\* the time of the call or at an earlier one), never one computed from the
\* record set of another path.
ComputedOn(fn, df, r) ==
    \E t0 \in 0..now :
        \/ fn = "calculate_progress" /\ r = calculate_progress(df, t0)
        \/ fn = "get_delayed_projects_count" /\ r = get_delayed_projects_count(df, t0)
        \/ fn = "get_next_milestone" /\ \E ip \in BOOLEAN : r = milestone_rows(df, t0, ip)

C2_ResultFromOwnRecordSet ==
    out.fn \in {"calculate_progress", "get_delayed_projects_count", "get_next_milestone"}
        => ComputedOn(out.fn, DfOf(out.path), out.r)

\* C4: the store never holds more than max_entries entries
C4_SizeBound == Len(cache) <= MaxEntries

\* C4 witness: a miss has evicted an entry and the store is full
C4_Witness == out.evicted /\ Len(cache) = MaxEntries /\ stats.misses > MaxEntries

(***************************************************************************)
(* Generated task tables: the inputs of the classifier and of the rollup   *)
(***************************************************************************)
TaskIdOf(i) == "T" \o StrInt(i)

\* finish dates around the day boundary: a date of day 0, midnight of day 1
\* and a later time of day 1
DelayFinishDates == {NaT, 1, DayLen, DayLen + 1}

\* a project_id cell of column type ty
PidOf(ty, k) == IF ty = "int" THEN PidInt(k)
                ELSE IF k = 1 THEN PidStr("1") ELSE PidStr("P2")

DelayAttr == [pid : {1}, status : {DONE, "open"}, finish : DelayFinishDates]

DelayRow(ty, i, a) ==
    MkRow(PidOf(ty, a.pid), TaskIdOf(i), "task", a.status, 0, a.finish, MARK)

\* the table of the rows with the attributes a[1], ..., a[n]
DelayTable(ty, a) == [i \in DOMAIN a |-> DelayRow(ty, i, a[i])]

\* an overdue open task, for the tables that lack a column
OverdueRows(ty) == << DelayRow(ty, 1, [pid |-> 1, status |-> "open", finish |-> 1]) >>

\* files whose header lacks one of the columns
DeficientFiles(ty) ==
    {File(TaskCols \ {c}, OverdueRows(ty)) :
        c \in {"project_id", "task_id", "task_status", "task_finish_date",
               "task_milestone", "process"}}

\* no file, and the files without a column
BadFiles(ty) == {NoFile} \cup DeficientFiles(ty)

\* start and finish dates of the rollup inputs: spans of a positive, a
\* fractional and a negative number of days
RollupStartDates == {NaT, DayLen + 1}
RollupFinishDates == {NaT, 1, 2 * DayLen + 2}

RollupAttr == [pid : {1, 2}, status : {DONE, "open"}, has_id : BOOLEAN,
               start : RollupStartDates, finish : RollupFinishDates]

RollupTaskRow(i, a, ms) ==
    MkRow(PidInt(a.pid), IF a.has_id THEN TaskIdOf(i) ELSE NullId, "task",
          a.status, a.start, a.finish, ms)

\* the table of the rows with the attributes a[1], ..., a[n]; the
\* milestone column is all marks or all empty
RollupTable(a, ms) == [i \in DOMAIN a |-> RollupTaskRow(i, a[i], ms)]

\* the tables served to the request handlers: finish dates long past, never
\* due, or missing, in an int or a str project_id column
ApiAttr == [pid : {1, 2}, status : {DONE, "open"}, finish : {NaT, 0, MaxTime}]

ApiIds == {"1", "2", "P2"}

(***************************************************************************)
(* Calls on generated tables                                               *)
(***************************************************************************)
\* check_delays(df) is not memoized
CallCheckDelays(p) ==
    /\ out' = [NoOut EXCEPT !.fn = "check_delays", !.path = p, !.at = now,
                            !.r = check_delays(DfOf(p), now), !.ran = TRUE,
                            !.before = get_cache_stats(St)]
    /\ UNCHANGED <<now, fs, environ, default_dashboard_path, cache, stats, pc, loc,
                 initialization_state>>

\* the effect of a request handler run w on the module state
Responds(w, fn, p, arg) ==
    /\ cache' = w.st.cache
    /\ stats' = w.st.stats
    /\ out' = [NoOut EXCEPT !.fn = fn, !.path = p, !.arg = arg, !.at = now,
                            !.r = w.r, !.ran = TRUE, !.before = get_cache_stats(St)]
    /\ UNCHANGED <<now, fs, environ, default_dashboard_path, pc, loc,
                 initialization_state>>

\* a request makes up to three memoized calls
RequestsLeft == stats.hits + stats.misses <= MaxCalls

\* GET /projects?file_path=p
GetProjects(p) ==
    /\ RequestsLeft
    /\ Responds(get_projects(St, now, fs, p), "get_projects", p, "")

\* GET /projects/{project_id}?file_path=p
GetProject(p, project_id) ==
    /\ RequestsLeft
    /\ Responds(get_project(St, now, fs, p, project_id), "get_project", p, project_id)

\* the state after start-up with the files f, at clock time t
InitWith(f, t) ==
    /\ now = t
    /\ fs = f
    /\ environ = NoEnviron
    /\ default_dashboard_path = None
    /\ cache = <<>>
    /\ stats = [hits |-> 0, misses |-> 0]
    /\ out = NoOut
    /\ pc = <<>>
    /\ loc = <<>>
    /\ initialization_state = StateAtImport(0)

FilesWith(a) == [p \in AllPaths |-> IF p = PathA THEN a
                                 ELSE IF p = PathB THEN FileB ELSE NoFile]

\* the classifier on every generated table, at every time of the clock
InitDelay ==
    \E t \in 0..MaxTime :
        \/ \E f \in BadFiles("int") : InitWith(FilesWith(f), t)
        \/ \E n \in 0..MaxRows : \E a \in [1..n -> DelayAttr] :
              InitWith(FilesWith(File(TaskCols, DelayTable("int", a))), t)

NextDelay ==
    \/ CallCheckDelays(PathA)
    \/ CallDelayedCount(PathA)
    \/ \E ip \in BOOLEAN : CallNextMilestone(PathA, ip)

SpecDelay == InitDelay /\ [][NextDelay]_vars

\* the rollup on every generated table of at most MaxRows rows; the first
\* row is of project 1
InitRollup ==
    \/ \E f \in BadFiles("int") : InitWith(FilesWith(f), 0)
    \/ \E n \in 0..MaxRows : \E a \in [1..n -> RollupAttr], ms \in {MARK, NullStr} :
          /\ \A i \in DOMAIN a : i = 1 => a[i].pid = 1
          /\ InitWith(FilesWith(File(TaskCols, RollupTable(a, ms))), 0)

NextRollup == CallCalculateProgress(PathA)

SpecRollup == InitRollup /\ [][NextRollup]_vars

\* the request handlers on every generated table, at the first tick of the
\* clock, at the next and at the last
InitApi ==
    \E t \in {0, 1, MaxTime} :
        \/ \E f \in BadFiles("str") : InitWith(FilesWith(f), t)
        \/ \E n \in 0..MaxRows : \E a \in [1..n -> ApiAttr], ty \in {"int", "str"} :
              /\ \A i \in DOMAIN a : i = 1 => a[i].pid = 1
              /\ InitWith(FilesWith(File(TaskCols, DelayTable(ty, a))), t)

NextApi ==
    \/ \E p \in {PathA, PathB} : GetProjects(p)
    \/ \E id \in ApiIds : GetProject(PathA, id)

SpecApi == InitApi /\ [][NextApi]_vars

(***************************************************************************)
(* The loader and the path resolver in a changing environment              *)
(***************************************************************************)
\* load_and_process_data(None): None is no scalar, so the key is the function
\* name alone; the path comes from the resolver when the function runs.  The
\* record of the call holds what _default_dashboard_path was (arg) and the
\* path that was loaded (path).
CallLoadDefault ==
    /\ CallsLeft
    /\ LET b == load_default_path(fs, environ, default_dashboard_path)
           w == wrapper(St, now, Join(<<"load_and_process_data">>), Ttl60,
                        Pure(Missed(St), b.r))
       IN  /\ cache' = w.st.cache
           /\ stats' = w.st.stats
           /\ default_dashboard_path' =
                 IF w.ran THEN b.dflt ELSE default_dashboard_path
           /\ out' = [fn |-> "load_and_process_data",
                      path |-> IF w.ran THEN b.path ELSE None,
                      arg |-> default_dashboard_path, kw |-> FALSE, r |-> w.r, at |-> now,
                      ran |-> w.ran, hit |-> w.hit, evicted |-> w.evicted,
                      entry |-> EntryOf(cache, Join(<<"load_and_process_data">>), now),
                      before |-> get_cache_stats(St)]
    /\ UNCHANGED <<now, fs, environ, pc, loc, initialization_state>>

\* load_and_process_data(path) of backend/models/project_dashboard.py
CallLegacyLoad(p) ==
    /\ out' = [NoOut EXCEPT !.fn = "project_dashboard.load_and_process_data",
                            !.path = p, !.at = now, !.ran = TRUE,
                            !.r = project_dashboard_load_and_process_data(fs, p),
                            !.before = get_cache_stats(St)]
    /\ UNCHANGED <<now, fs, environ, default_dashboard_path, cache, stats, pc, loc,
                 initialization_state>>

\* resolve_dashboard_path(); ran tells whether it probed the environment,
\* entry what it found in _default_dashboard_path
CallResolve ==
    /\ LET v == resolve_dashboard_path(fs, environ, default_dashboard_path)
       IN  /\ default_dashboard_path' = v.dflt
           /\ out' = [NoOut EXCEPT !.fn = "resolve_dashboard_path", !.at = now,
                                   !.r = Ok(v.r), !.ran = v.probed,
                                   !.entry = [found |-> default_dashboard_path # None,
                                              age |-> 0,
                                              data |-> default_dashboard_path],
                                   !.before = get_cache_stats(St)]
    /\ UNCHANGED <<now, fs, environ, cache, stats, pc, loc, initialization_state>>

\* resolve_dashboard_path() of backend/main.py
CallMainResolve ==
    /\ out' = [NoOut EXCEPT !.fn = "main.resolve_dashboard_path", !.at = now,
                            !.r = Ok(main_resolve_dashboard_path(fs, environ)),
                            !.ran = TRUE, !.before = get_cache_stats(St)]
    /\ UNCHANGED <<now, fs, environ, default_dashboard_path, cache, stats, pc, loc,
                 initialization_state>>

\* the world outside the process: it is no call, so it leaves nothing in out
Outside == [NoOut EXCEPT !.fn = "outside"]

\* the user (or another program) sets or unsets APP_PATH
SetAppPath(v) ==
    /\ environ.APP_PATH # v
    /\ environ' = [environ EXCEPT !.APP_PATH = v]
    /\ out' = Outside
    /\ UNCHANGED <<now, fs, default_dashboard_path, cache, stats, pc, loc,
                 initialization_state>>

\* a file is put at path p, or the file at p is removed
PutFile(p, file) ==
    /\ ~fs[p].exists
    /\ fs' = [fs EXCEPT ![p] = file]
    /\ out' = Outside
    /\ UNCHANGED <<now, environ, default_dashboard_path, cache, stats, pc, loc,
                 initialization_state>>

RemoveFile(p) ==
    /\ fs[p].exists
    /\ fs' = [fs EXCEPT ![p] = NoFile]
    /\ out' = Outside
    /\ UNCHANGED <<now, environ, default_dashboard_path, cache, stats, pc, loc,
                 initialization_state>>

\* the files that come and go while the process runs
BundleFile == ExportsUnder(AppDir)
DocumentsFile == TargetUnder(UserFolders[1])
VolatilePaths == {PathA, BundleFile}

\* a table without rows
EmptyFile == File(TaskCols, <<>>)

\* the state after start-up: a file, an unreadable file, an empty table or
\* nothing at the requested path; the Documents folder present or not, with
\* or without a dashboard file; APP_PATH set or not; PMSUITE_DASHBOARD_FILE
\* set to the requested path or not
InitLoad ==
    \E a \in {NoFile, Unreadable, EmptyFile, FileA}, alt \in {NoFile, FileB},
       docs \in {NoFile, Folder}, target \in {NoFile, FileB},
       app \in {"", AppDir}, file \in {"", PathA} :
        /\ target.exists => docs.exists
        /\ now = 0
        /\ fs = [p \in AllPaths |->
                    IF p = PathA THEN a
                    ELSE IF p = UserFolders[1] THEN docs
                    ELSE IF p = DocumentsFile THEN target
                    ELSE IF p = AltPaths[1] THEN alt
                    ELSE NoFile]
        /\ environ = [APP_PATH |-> app, PMSUITE_DASHBOARD_FILE |-> file]
        /\ default_dashboard_path = None
        /\ cache = <<>>
        /\ stats = [hits |-> 0, misses |-> 0]
        /\ out = NoOut
        /\ pc = <<>>
        /\ loc = <<>>
        /\ initialization_state = StateAtImport(0)

NextLoad ==
    \/ \E p \in {PathA, PathMissing} : CallLoad(p)
    \/ CallLoadDefault
    \/ \E p \in {PathA, PathMissing} : CallLegacyLoad(p)
    \/ CallResolve
    \/ CallMainResolve
    \/ \E v \in {"", AppDir} : SetAppPath(v)
    \/ \E p \in VolatilePaths : PutFile(p, FileB)
    \/ \E p \in VolatilePaths : RemoveFile(p)

SpecLoad == InitLoad /\ [][NextLoad]_vars

(***************************************************************************)
(* Calls of get_recent_tasks on generated tables                           *)
(***************************************************************************)
CallRecentTasks(p, project_id) ==
    /\ CallsLeft
    /\ Returns(cached_get_recent_tasks(St, now, DfOf(p), project_id),
               "get_recent_tasks", p, project_id, FALSE)

\* tasks that start on day 0, 1 or 2 or have no start date, and finish on
\* day 1 or have no finish date
RecentAttr == [status : {DONE, "open"},
               start : {NaT, 0, DayLen + 1, 2 * DayLen},
               finish : {NaT, DayLen + 1}]

RecentTable(a) ==
    [i \in DOMAIN a |-> MkRow(PidInt(1), TaskIdOf(i), TaskIdOf(i), a[i].status,
                              a[i].start, a[i].finish, NullStr)]

InitRecent ==
    \E t \in 0..MaxTime :
        \/ \E f \in BadFiles("int") : InitWith(FilesWith(f), t)
        \/ \E n \in 0..MaxRows : \E a \in [1..n -> RecentAttr] :
              InitWith(FilesWith(File(TaskCols, RecentTable(a))), t)

NextRecent == \E project_id \in {"1", "2"} : CallRecentTasks(PathA, project_id)

SpecRecent == InitRecent /\ [][NextRecent]_vars

(***************************************************************************)
(* Loads of a dashboard file that has a projects file next to it           *)
(***************************************************************************)
\* the task table with the project ids ids[1], ..., ids[n] in a column of
\* type ty
CompanionTasks(ty, ids) ==
    [i \in DOMAIN ids |-> MkRow(PidOf(ty, ids[i]), TaskIdOf(i), "task", "open",
                                0, 1, NullStr)]

ProjectCols == {"project_id", "project_name", "project_path", "ganttchart_path"}

\* the projects table with a row for ids[1], ..., ids[n]
ProjectRows(ty, ids) ==
    [i \in DOMAIN ids |->
        [project_id |-> PidOf(ty, ids[i]), project_name |-> "N",
         project_path |-> "/projects/" \o StrInt(i),
         ganttchart_path |-> "/gantt/" \o StrInt(i)]]

\* the files with the task file dash and the projects file proj
CompanionFiles(dash, proj) ==
    [p \in AllPaths |-> IF p = PathDash THEN dash
                        ELSE IF p = PathProj THEN proj
                        ELSE IF p = PathA THEN FileA ELSE NoFile]

\* a task file, and beside it no file, a file no encoding reads, or a
\* projects table, with or without the project_path column
InitCompanion ==
    \E ty \in {"int", "str"}, n \in 0..MaxRows : \E ids \in [1..n -> {1, 2}] :
        \/ \E proj \in {NoFile, Unreadable} :
              InitWith(CompanionFiles(File(TaskCols, CompanionTasks(ty, ids)), proj), 0)
        \/ \E ty2 \in {"int", "str"}, m \in 0..MaxRows, lacks \in BOOLEAN :
           \E ids2 \in [1..m -> {1, 2}] :
              InitWith(CompanionFiles(
                         File(TaskCols, CompanionTasks(ty, ids)),
                         File(IF lacks THEN ProjectCols \ {"project_path"}
                              ELSE ProjectCols,
                              ProjectRows(ty2, ids2))), 0)

NextCompanion ==
    \/ \E p \in {PathDash, PathA} : CallLoad(p)
    \/ CallLegacyLoad(PathDash)

SpecCompanion == InitCompanion /\ [][NextCompanion]_vars

(***************************************************************************)
(* Memoized calls with arbitrary arguments                                 *)
(***************************************************************************)
KeyCalls == 2    \* memoized calls in a run of the specification SpecKey

\* an invocation of a memoized function
Invocation(func_name, args, file_path) ==
    [fn |-> func_name, args |-> args, path |-> file_path]

\* a memoized function called with args positionally and file_path as the
\* dashboard_file_path keyword; the function computes a result that tells
\* the invocation it was computed for
CallMemoized(func_name, args, file_path) ==
    LET inv == Invocation(func_name, args, file_path)
        key == cache_key(func_name, args, file_path)
        w   == wrapper(St, now, key, Ttl60, Pure(Missed(St), Ok(inv)))
    IN  /\ stats.hits + stats.misses < KeyCalls
        /\ cache' = w.st.cache
        /\ stats' = w.st.stats
        /\ out' = [NoOut EXCEPT !.fn = "memoized", !.arg = inv, !.at = now,
                                !.r = w.r, !.ran = w.ran, !.hit = w.hit,
                                !.evicted = w.evicted,
                                !.entry = EntryOf(cache, key, now),
                                !.before = get_cache_stats(St)]
        /\ UNCHANGED <<now, fs, environ, default_dashboard_path, pc, loc,
                 initialization_state>>

\* the positional values: an int and the str with the same text, a path
\* given positionally, a record set
KeyArgs == {IntArg(1), StrArg("1"), StrArg(PathA), DfArg(0)}
KeyArgLists ==
    {<<>>} \cup {<<a>> : a \in KeyArgs} \cup {<<a, b>> : a, b \in KeyArgs}
KeyFunctions == {"calculate_progress", "get_next_milestone"}

InitKey == InitWith(FilesWith(NoFile), 0)

NextKey ==
    \E func_name \in KeyFunctions, args \in KeyArgLists, file_path \in {"", PathA} :
        CallMemoized(func_name, args, file_path)

SpecKey == InitKey /\ [][NextKey]_vars

(***************************************************************************)
(* The milestone endpoints                                                 *)
(***************************************************************************)
\* the effect of a milestone operation run w on the module state and the
\* files; the record of the call holds the record set a load from disk gave
\* before the operation (entry)
Operates(w, fn, p, milestone_id) ==
    /\ cache' = w.st.cache
    /\ stats' = w.st.stats
    /\ fs' = w.f
    /\ out' = [NoOut EXCEPT !.fn = fn, !.path = p, !.arg = milestone_id,
                            !.at = now, !.r = w.r, !.ran = TRUE,
                            !.entry = [found |-> TRUE, age |-> 0, data |-> DfOf(p)],
                            !.before = get_cache_stats(St)]
    /\ UNCHANGED <<now, environ, default_dashboard_path, pc, loc,
                 initialization_state>>

\* the Milestone a client sends
MilestoneBody(milestone_id) ==
    [id |-> milestone_id, name |-> "gate", planned_date |-> MaxTime,
     status |-> "not-started", project_id |-> "1"]

\* GET /milestones?file_path=p&project_id=...
GetMilestones(p, project_id) ==
    /\ RequestsLeft
    /\ Responds(get_milestones(St, now, fs, p, project_id),
                "get_milestones", p, project_id)

\* POST /milestones
CreateMilestone(p, milestone_id) ==
    /\ RequestsLeft
    /\ Operates(create_milestone(St, now, fs, p, MilestoneBody(milestone_id)),
                "create_milestone", p, milestone_id)

\* PUT /milestones/{milestone_id}
UpdateMilestone(p, milestone_id, body_id) ==
    /\ RequestsLeft
    /\ Operates(update_existing_milestone(St, now, fs, p, milestone_id,
                                          MilestoneBody(body_id)),
                "update_milestone", p, milestone_id)

\* DELETE /milestones/{milestone_id}
DeleteMilestone(p, milestone_id) ==
    /\ RequestsLeft
    /\ Operates(delete_milestone(St, now, fs, p, milestone_id),
                "delete_milestone", p, milestone_id)

\* tasks of one project, flagged as milestones or not, with a finish date in
\* the past, in the future, or none
MilestoneAttr == [ms : {MARK, NullStr}, status : {DONE, "open"},
                  finish : {NaT, 0, MaxTime}]

MilestoneTable(a) ==
    [i \in DOMAIN a |-> MkRow(PidInt(1), TaskIdOf(i), "task", a[i].status,
                              0, a[i].finish, a[i].ms)]

\* the ids the clients name: of the first task, and of no task
MilestoneIds == {"m-T1", "m-T9"}

\* the endpoints on every generated table, on the first day of the clock and
\* on its last
InitMilestones ==
    \E t \in {0, MaxTime} :
        \/ InitWith(FilesWith(NoFile), t)
        \/ \E n \in 0..MaxRows : \E a \in [1..n -> MilestoneAttr] :
              InitWith(FilesWith(File(TaskCols, MilestoneTable(a))), t)

NextMilestones ==
    \/ \E project_id \in {None, "1"} : GetMilestones(PathA, project_id)
    \/ \E id \in MilestoneIds : CreateMilestone(PathA, id)
    \/ \E id, body_id \in MilestoneIds : UpdateMilestone(PathA, id, body_id)
    \/ \E id \in MilestoneIds : DeleteMilestone(PathA, id)

SpecMilestones == InitMilestones /\ [][NextMilestones]_vars

(***************************************************************************)
(* Claims about the classifier (specifications SpecDelay and SpecApi)      *)
(***************************************************************************)
\* the delay test as the specification words it
OverdueAndOpen(r, t) ==
    /\ r.task_finish_date # NaT
    /\ r.task_finish_date \div DayLen < t \div DayLen
    /\ r.task_status # DONE

Returned(rows, r) == \E j \in DOMAIN rows : rows[j] = r

\* C5: check_delays returns a row if and only if the calendar date of its
\* task_finish_date is strictly before today's date and its status is not
\* the completion sentinel; rows due today, completed rows and rows without
\* a finish date are never returned.
C5_DelayedIffOverdueAndOpen ==
    out.fn = "check_delays" /\ ~out.r.raised =>
        LET df == DfOf(out.path)
        IN  /\ \A i \in DOMAIN df.rows :
                 Returned(out.r.val.rows, df.rows[i]) <=> OverdueAndOpen(df.rows[i], out.at)
            /\ \A j \in DOMAIN out.r.val.rows : Returned(df.rows, out.r.val.rows[j])

\* C5 witness: check_delays returned an overdue row and left out an open row
\* that was due earlier on the day of the call
C5_Witness ==
    /\ out.fn = "check_delays" /\ ~out.r.raised
    /\ out.r.val.rows # <<>>
    /\ \E i \in DOMAIN DfOf(out.path).rows :
         LET r == DfOf(out.path).rows[i]
         IN  /\ r.task_status # DONE
             /\ r.task_finish_date # NaT
             /\ r.task_finish_date < out.at
             /\ ~Returned(out.r.val.rows, r)

\* C6: for every project returned by get_projects and get_project, has_delay
\* is true if and only if the loaded record set has at least one delayed task
\* whose project_id, in string form, is the project's id; the column may hold
\* numbers or strings.
C6_HasDelayIffDelayedTask ==
    out.fn \in {"get_projects", "get_project"} /\ ~out.r.raised =>
        LET df == DfOf(out.path)
        IN  \A i \in DOMAIN out.r.val :
              out.r.val[i].has_delay <=>
                \E k \in DOMAIN df.rows :
                    /\ str(df.rows[k].project_id) = out.r.val[i].project_id
                    /\ OverdueAndOpen(df.rows[k], out.at)

\* C6 witness: get_projects on a table whose project_id column holds numbers
\* returned a delayed project and a project that is not delayed
C6_Witness ==
    /\ out.fn = "get_projects" /\ ~out.r.raised
    /\ DfOf(out.path).rows # <<>>
    /\ DfOf(out.path).rows[1].project_id.t = "int"
    /\ \E i, j \in DOMAIN out.r.val :
         out.r.val[i].has_delay /\ ~out.r.val[j].has_delay

\* the inputs C10 names: an empty table, the error sentinel of the loader, a
\* record set without one of the columns the function reads
Malformed(fn, df) ==
    \/ df.rows = <<>>
    \/ "error" \in df.cols
    \/ ~({"task_finish_date", "task_status"} \subseteq df.cols)
    \/ fn = "get_next_milestone" /\ "task_milestone" \notin df.cols

IsEmptyResult(fn, v) ==
    IF fn = "get_delayed_projects_count" THEN v = 0 ELSE v.rows = <<>>

\* C10 (as claimed): check_delays, get_delayed_projects_count and
\* get_next_milestone never raise, and on an empty table, an error sentinel
\* or a record set lacking task_finish_date, task_status or task_milestone
\* they return an empty result (no rows, count 0).
C10_ClassifierNeverRaises ==
    out.fn \in {"check_delays", "get_delayed_projects_count", "get_next_milestone"} =>
        /\ ~out.r.raised
        /\ Malformed(out.fn, DfOf(out.path)) => IsEmptyResult(out.fn, out.r.val)

(***************************************************************************)
(* Claims about the rollup (specification SpecRollup)                      *)
(***************************************************************************)
IsRollupOut == out.fn = "calculate_progress" /\ ~out.r.raised

\* C7 (as claimed): in every row of every rollup 0 <= progress <= 100, and
\* progress = 0 when total_tasks = 0, for every record set, rows with a null
\* task_id included.
C7_ProgressBounds ==
    IsRollupOut =>
        \A i \in DOMAIN out.r.val.rows :
            LET row == out.r.val.rows[i]
            IN  /\ ~row.progress.inf
                /\ 0 <= row.progress.c /\ row.progress.c <= 10000
                /\ row.total_tasks = 0 => row.progress = Num(0)

\* the tasks of a project in a record set
TasksOf(df, pid) ==
    IF "project_id" \notin df.cols THEN {}
    ELSE {k \in DOMAIN df.rows : df.rows[k].project_id = pid}

IsMinOf(d, S) == IF S \subseteq {NaT} THEN d = NaT
                 ELSE d \in S \ {NaT} /\ \A e \in S \ {NaT} : d <= e
IsMaxOf(d, S) == IF S \subseteq {NaT} THEN d = NaT
                 ELSE d \in S \ {NaT} /\ \A e \in S \ {NaT} : d >= e

\* duration is the number of whole days from start_date to end_date, the
\* earliest start and the latest finish of the tasks, and 0 when one is null
DurationAsSpecified(df, row) ==
    LET T == TasksOf(df, row.project_id)
    IN  /\ T # {} =>
              /\ IsMinOf(row.start_date, {df.rows[k].task_start_date : k \in T})
              /\ IsMaxOf(row.end_date, {df.rows[k].task_finish_date : k \in T})
        /\ IF row.start_date = NaT \/ row.end_date = NaT THEN row.duration = 0
           ELSE /\ row.duration * DayLen <= row.end_date - row.start_date
                /\ row.end_date - row.start_date < (row.duration + 1) * DayLen

HasBothDates(r) == r.task_start_date # NaT /\ r.task_finish_date # NaT

EveryDatedTaskOrdered(df, pid) ==
    \A k \in TasksOf(df, pid) :
        HasBothDates(df.rows[k]) => df.rows[k].task_start_date <= df.rows[k].task_finish_date

\* C8 (as claimed): duration is (max task_finish_date - min task_start_date)
\* in whole days, 0 when start_date or end_date is null, and >= 0 whenever
\* every task of the project that has both dates has start <= finish.
C8_DurationAsClaimed ==
    IsRollupOut =>
        \A i \in DOMAIN out.r.val.rows :
            LET row == out.r.val.rows[i]
                df == DfOf(out.path)
            IN  /\ DurationAsSpecified(df, row)
                /\ EveryDatedTaskOrdered(df, row.project_id) => row.duration >= 0

\* C8 (amended): as claimed, with duration >= 0 promised only when at least
\* one task of the project has both dates and every such task has
\* start <= finish.
C8_DurationAmended ==
    IsRollupOut =>
        \A i \in DOMAIN out.r.val.rows :
            LET row == out.r.val.rows[i]
                df == DfOf(out.path)
            IN  /\ DurationAsSpecified(df, row)
                /\ (/\ \E k \in TasksOf(df, row.project_id) : HasBothDates(df.rows[k])
                    /\ EveryDatedTaskOrdered(df, row.project_id))
                   => row.duration >= 0

\* C8 witness: a rollup row whose span is a positive number of days and a
\* part of a day, and a row without an end date
C8_Witness ==
    /\ IsRollupOut
    /\ \E i, j \in DOMAIN out.r.val.rows :
         LET a == out.r.val.rows[i]
             b == out.r.val.rows[j]
         IN  /\ a.duration >= 1
             /\ (a.end_date - a.start_date) % DayLen # 0
             /\ EveryDatedTaskOrdered(DfOf(out.path), a.project_id)
             /\ b.start_date # NaT /\ b.end_date = NaT /\ b.duration = 0

IsDiagnostic(roll) ==
    /\ Len(roll.rows) = 1
    /\ roll.rows[1].total_tasks = 0
    /\ roll.rows[1].completed_tasks = 0
    /\ roll.rows[1].progress = Num(0)
    /\ roll.rows[1].duration = 0

\* C9: calculate_progress never raises; an empty record set gives an empty
\* rollup with the full column set; a non-empty record set that is an error
\* sentinel, lacks a required column or makes the computation raise gives
\* exactly one diagnostic row with total_tasks, completed_tasks, progress and
\* duration 0.
C9_RollupIsTotal ==
    out.fn = "calculate_progress" =>
        /\ ~out.r.raised
        /\ LET df == DfOf(out.path)
               roll == out.r.val
           IN  IF df.rows = <<>>
               THEN roll.rows = <<>> /\ roll.cols = RollupCols
               ELSE (\/ "error" \in df.cols
                     \/ ~(RequiredColumns \subseteq df.cols)
                     \/ calculate_progress_try(df, out.at).raised)
                    => IsDiagnostic(roll)

\* C9 witness: the computation raised inside calculate_progress and the
\* caller got the diagnostic row
C9_Witness ==
    /\ out.fn = "calculate_progress" /\ out.ran
    /\ calculate_progress_try(DfOf(out.path), out.at).raised
    /\ ~out.r.raised
    /\ out.r.val.rows[1].project_name = "calc error"

(***************************************************************************)
(* cache_result.wrapper, statement by statement, on worker threads         *)
(*                                                                         *)
(* run_in_threadpool hands each memoized call to a thread of the default   *)
(* executor; the wrapper takes no lock, so the threads interleave between  *)
(* its statements.  pc[t] is the statement thread t executes next, loc[t]  *)
(* its local variables.  The calls are load_and_process_data(path).        *)
(***************************************************************************)
Threads == 1..NThreads

NoLoc == [path |-> "", cache_key |-> "", data |-> 0, timestamp |-> 0,
          tmp |-> 0, result |-> 0, oldest_key |-> "", calls |-> 0,
          error |-> ""]

Goto(t, label) == pc' = [pc EXCEPT ![t] = label]

\* an exception leaves the wrapper: the call of thread t has failed
Fails(t, e) ==
    /\ pc' = [pc EXCEPT ![t] = "failed"]
    /\ loc' = [loc EXCEPT ![t].error = e]

\* a worker thread picks up load_and_process_data(p) and builds cache_key
T_Begin(t, p) ==
    /\ pc[t] = "idle"
    /\ loc[t].calls < MaxThreadCalls
    /\ Goto(t, "check")
    /\ loc' = [loc EXCEPT ![t] = [NoLoc EXCEPT
                  !.path = p,
                  !.cache_key = Join(<<"load_and_process_data", p>>),
                  !.calls = loc[t].calls + 1]]
    /\ UNCHANGED <<now, fs, environ, default_dashboard_path, cache, stats, out,
                 initialization_state>>

\* if cache_key in _data_cache:
T_Check(t) ==
    /\ pc[t] = "check"
    /\ IF KeyIndex(cache, loc[t].cache_key) # 0
       THEN Goto(t, "read") ELSE Goto(t, "miss")
    /\ UNCHANGED <<now, fs, environ, default_dashboard_path, cache, stats, out, loc,
                 initialization_state>>

\* data, timestamp = _data_cache[cache_key]; age = ...; if age < ttl_seconds:
T_Read(t) ==
    /\ pc[t] = "read"
    /\ LET i == KeyIndex(cache, loc[t].cache_key)
       IN  IF i = 0 THEN Fails(t, "KeyError")
           ELSE /\ loc' = [loc EXCEPT ![t].data = cache[i].data,
                                      ![t].timestamp = cache[i].ts]
                /\ IF IsFresh(now - cache[i].ts, Ttl60)
                   THEN Goto(t, "hit") ELSE Goto(t, "miss")
    /\ UNCHANGED <<now, fs, environ, default_dashboard_path, cache, stats, out,
                 initialization_state>>

\* _cache_stats['hits'] += 1, the read of the counter
T_HitRead(t) ==
    /\ pc[t] = "hit"
    /\ loc' = [loc EXCEPT ![t].tmp = stats.hits]
    /\ Goto(t, "hit_store")
    /\ UNCHANGED <<now, fs, environ, default_dashboard_path, cache, stats, out,
                 initialization_state>>

\* _cache_stats['hits'] += 1, the write of the counter; return data
T_HitStore(t) ==
    /\ pc[t] = "hit_store"
    /\ stats' = [stats EXCEPT !.hits = loc[t].tmp + 1]
    /\ loc' = [loc EXCEPT ![t].result = loc[t].data]
    /\ Goto(t, "idle")
    /\ UNCHANGED <<now, fs, environ, default_dashboard_path, cache, out,
                 initialization_state>>

\* _cache_stats['misses'] += 1, the read of the counter
T_MissRead(t) ==
    /\ pc[t] = "miss"
    /\ loc' = [loc EXCEPT ![t].tmp = stats.misses]
    /\ Goto(t, "run")
    /\ UNCHANGED <<now, fs, environ, default_dashboard_path, cache, stats, out,
                 initialization_state>>

\* _cache_stats['misses'] += 1, the write; result = func(*args, **kwargs)
T_Run(t) ==
    /\ pc[t] = "run"
    /\ stats' = [stats EXCEPT !.misses = loc[t].tmp + 1]
    /\ loc' = [loc EXCEPT ![t].result = load_and_process_data(fs, loc[t].path).val]
    /\ Goto(t, "size")
    /\ UNCHANGED <<now, fs, environ, default_dashboard_path, cache, out,
                 initialization_state>>

\* if len(_data_cache) >= max_entries:
T_Size(t) ==
    /\ pc[t] = "size"
    /\ IF CacheIsFull(cache) THEN Goto(t, "oldest") ELSE Goto(t, "store")
    /\ UNCHANGED <<now, fs, environ, default_dashboard_path, cache, stats, out, loc,
                 initialization_state>>

\* oldest_key = min(_data_cache.items(), key=lambda x: x[1][1])[0]
T_Oldest(t) ==
    /\ pc[t] = "oldest"
    /\ IF cache = <<>> THEN Fails(t, "ValueError")
       ELSE /\ loc' = [loc EXCEPT ![t].oldest_key = cache[OldestIndex(cache)].key]
            /\ Goto(t, "del")
    /\ UNCHANGED <<now, fs, environ, default_dashboard_path, cache, stats, out,
                 initialization_state>>

\* del _data_cache[oldest_key]
T_Del(t) ==
    /\ pc[t] = "del"
    /\ LET i == KeyIndex(cache, loc[t].oldest_key)
       IN  IF i = 0
           THEN Fails(t, "KeyError") /\ UNCHANGED cache
           ELSE cache' = DelAt(cache, i) /\ Goto(t, "store") /\ UNCHANGED loc
    /\ UNCHANGED <<now, fs, environ, default_dashboard_path, stats, out,
                 initialization_state>>

\* _data_cache[cache_key] = (result, time.time()); return result
T_Store(t) ==
    /\ pc[t] = "store"
    /\ cache' = Put(cache, loc[t].cache_key, loc[t].result, now)
    /\ Goto(t, "idle")
    /\ UNCHANGED <<now, fs, environ, default_dashboard_path, stats, out, loc,
                 initialization_state>>

T_Tick ==
    /\ now < MaxTime
    /\ now' = now + 1
    /\ UNCHANGED <<fs, environ, default_dashboard_path, cache, stats, out, pc, loc,
                 initialization_state>>

InitConc ==
    /\ now = 0
    /\ fs = TwoFiles
    /\ environ = NoEnviron
    /\ default_dashboard_path = None
    /\ cache = <<>>
    /\ stats = [hits |-> 0, misses |-> 0]
    /\ out = NoOut
    /\ pc = [t \in Threads |-> "idle"]
    /\ loc = [t \in Threads |-> NoLoc]
    /\ initialization_state = StateAtImport(0)

NextConc ==
    \/ T_Tick
    \/ \E t \in Threads, p \in Paths : T_Begin(t, p)
    \/ \E t \in Threads : T_Check(t)
    \/ \E t \in Threads : T_Read(t)
    \/ \E t \in Threads : T_HitRead(t)
    \/ \E t \in Threads : T_HitStore(t)
    \/ \E t \in Threads : T_MissRead(t)
    \/ \E t \in Threads : T_Run(t)
    \/ \E t \in Threads : T_Size(t)
    \/ \E t \in Threads : T_Oldest(t)
    \/ \E t \in Threads : T_Del(t)
    \/ \E t \in Threads : T_Store(t)

SpecConc == InitConc /\ [][NextConc]_vars

\* C3 (as claimed): under every interleaving the store never holds more than
\* max_entries entries, no call fails on an entry that another call has
\* removed (no double eviction), and every stored entry is a (result,
\* timestamp) pair holding the result of its key.
C3_WrapperIsAtomic ==
    /\ Len(cache) <= MaxEntries
    /\ \A t \in Threads : pc[t] # "failed"
    /\ \A i \in DOMAIN cache :
         \E p \in Paths :
            /\ cache[i].key = Join(<<"load_and_process_data", p>>)
            /\ cache[i].data = load_and_process_data(fs, p).val
            /\ cache[i].ts \in 0..now

(***************************************************************************)
(* Claims about the loader and the resolver (specification SpecLoad)       *)
(***************************************************************************)
AppLoader == "load_and_process_data"
LegacyLoader == "project_dashboard.load_and_process_data"

\* the last call was a load on which the loader's body ran
IsLoadOut == out.fn \in {AppLoader, LegacyLoader} /\ out.ran

\* no file at the path nor, for the loader that tries them, at an
\* alternative location
NoFileAnywhere(fn, p) ==
    /\ ~fs[p].exists
    /\ fn = AppLoader => \A i \in DOMAIN AltPaths : ~fs[AltPaths[i]].exists

\* the file a load of path p reads, when there is one
FileReadBy(fn, p) ==
    IF fs[p].exists \/ fn = LegacyLoader THEN p
    ELSE AltPaths[CHOOSE i \in DOMAIN AltPaths :
                    /\ fs[AltPaths[i]].exists
                    /\ \A j \in 1..(i - 1) : ~fs[AltPaths[j]].exists]

LoadFails(fn, p) ==
    NoFileAnywhere(fn, p) \/ ~fs[FileReadBy(fn, p)].decodes

\* a record set with an 'error' field holding a message, which the rollup
\* and the milestone list treat as an error
IsErrorSentinel(df, t) ==
    /\ "error" \in df.cols
    /\ df.rows # <<>>
    /\ \A i \in DOMAIN df.rows : df.rows[i].error # ""
    /\ calculate_progress(df, t) = Ok(ErrorRollup("error", t))
    /\ get_project_milestones(df, None, t) = Ok(<<>>)

\* C11 (as claimed): load_and_process_data lets no exception escape; every
\* failed load (no file at the path and the alternative locations, a file
\* that no encoding reads) returns a record set with an 'error' field and a
\* message, which calculate_progress and get_project_milestones recognise;
\* a load that succeeds returns a record set without an 'error' field.
C11_FailureGivesErrorSentinel ==
    IsLoadOut =>
        /\ ~out.r.raised
        /\ IF LoadFails(out.fn, out.path)
           THEN IsErrorSentinel(out.r.val, out.at)
           ELSE "error" \notin out.r.val.cols

\* C12 (as claimed): resolve_dashboard_path returns the path of a file that
\* exists, and a load that finds no file at the path and at the alternative
\* locations returns a table of tasks (the sample dataset), not an error.
C12_FallbackIsUsable ==
    /\ out.fn = "resolve_dashboard_path" => fs[out.r.val].exists
    /\ (out.fn = AppLoader /\ out.ran /\ NoFileAnywhere(AppLoader, out.path)) =>
          /\ ~out.r.raised
          /\ RequiredColumns \subseteq out.r.val.cols
          /\ out.r.val.rows # <<>>

\* C13: once resolve_dashboard_path has returned a path, every later call
\* returns that path without looking at the environment or the file system,
\* whatever files were put or removed and whatever APP_PATH became since:
\* a call that finds a remembered path returns it unprobed, and every call,
\* also the one the loader makes, leaves the path it returned remembered.
C13_ResolutionIsSticky ==
    /\ out.fn = "resolve_dashboard_path" =>
          /\ default_dashboard_path = out.r.val
          /\ out.entry.found => out.r.val = out.entry.data /\ ~out.ran
    /\ (out.fn = AppLoader /\ out.ran /\ out.arg # "") =>
          /\ default_dashboard_path = out.path
          /\ out.arg # None => out.path = out.arg

\* C13 witness: the resolver answered from memory although a fresh look at
\* the environment would now give another path
C13_Witness ==
    /\ out.fn = "resolve_dashboard_path"
    /\ out.entry.found
    /\ ~out.ran
    /\ ProbedPath(fs, environ) # out.r.val

(***************************************************************************)
(* Claims about the next milestone (specifications SpecDelay and SpecApi)  *)
(***************************************************************************)
IsFuture(r, t) == ~IsNaT(r.task_finish_date) /\ r.task_finish_date > t

\* C14 (as claimed): get_next_milestone called without include_past, when
\* the function runs, returns only milestones whose task_finish_date is
\* after now; with no milestone in the future the result is empty.
C14_FutureOnlyUnlessIncludePast ==
    (/\ out.fn = "get_next_milestone" /\ out.arg = "" /\ ~out.kw
     /\ out.ran /\ ~out.r.raised) =>
        \A i \in DOMAIN out.r.val.rows : IsFuture(out.r.val.rows[i], out.at)

\* the milestone rows of a project in a record set
MilestonesOf(df, project_id) ==
    IF ~({"project_id", "task_milestone"} \subseteq df.cols) THEN {}
    ELSE {k \in DOMAIN df.rows :
            /\ df.rows[k].task_milestone = MARK
            /\ str(df.rows[k].project_id) = project_id}

IsLabelOf(label, r, t) == label = FormatLabel(r.task_name, r.task_finish_date, t)

\* C15 (as claimed): the next_milestone label of every project returned by
\* get_projects and get_project is that of the project's milestone with the
\* earliest task_finish_date after now when there is one; otherwise, when
\* the project has a milestone in the past, that of the most recent one.
C15_LabelIsNextMilestone ==
    out.fn \in {"get_projects", "get_project"} /\ ~out.r.raised =>
        LET df == DfOf(out.path)
        IN  \A i \in DOMAIN out.r.val :
              LET M == MilestonesOf(df, out.r.val[i].project_id)
                  F == {k \in M : IsFuture(df.rows[k], out.at)}
                  P == {k \in M \ F : ~IsNaT(df.rows[k].task_finish_date)}
                  label == out.r.val[i].next_milestone
              IN  IF F # {}
                  THEN \E k \in F :
                         /\ \A j \in F : df.rows[k].task_finish_date
                                            <= df.rows[j].task_finish_date
                         /\ IsLabelOf(label, df.rows[k], out.at)
                  ELSE P # {} =>
                       \E k \in P :
                         /\ \A j \in P : df.rows[k].task_finish_date
                                            >= df.rows[j].task_finish_date
                         /\ IsLabelOf(label, df.rows[k], out.at)

(***************************************************************************)
(* Claims about the rollup's schema and counts (specification SpecRollup)  *)
(***************************************************************************)
\* C16 (as claimed): every rollup has the complete set of columns, whatever
\* columns the input has; a column the input lacks is there with its default.
C16_SchemaIsComplete ==
    IsRollupOut => RollupCols \subseteq out.r.val.cols

\* C20 (as claimed): for every project of the input, total_tasks is the
\* number of the project's task rows, completed_tasks the number of those
\* with the completion status (so completed_tasks <= total_tasks), and
\* progress = completed_tasks * 100 / total_tasks rounded to 2 decimals.
C20_CountsAndProgress ==
    IsRollupOut =>
        LET df == DfOf(out.path)
        IN  \A i \in DOMAIN out.r.val.rows :
              LET row == out.r.val.rows[i]
                  T == TasksOf(df, row.project_id)
                  done == {k \in T : df.rows[k].task_status = DONE}
              IN  T # {} =>
                    /\ row.total_tasks = Cardinality(T)
                    /\ row.completed_tasks = Cardinality(done)
                    /\ row.completed_tasks <= row.total_tasks
                    /\ row.progress =
                          Num(RoundDiv(Cardinality(done) * 10000, Cardinality(T)))

(***************************************************************************)
(* Claims about eviction (specification Spec)                              *)
(***************************************************************************)
\* C19 (as claimed): a miss removes an entry only when the store holds
\* max_entries entries and none of them has the key of the call; then
\* exactly one entry goes.  A miss on a key that is in the store (an expired
\* entry) leaves the number of entries as it was.  (Calls of the functions
\* that call no memoized function themselves.)
C19_EvictsOnlyToMakeRoom ==
    (/\ out.fn \in {"load_and_process_data", "calculate_progress",
                    "get_delayed_projects_count"}
     /\ out.ran /\ ~out.r.raised) =>
        Len(cache) = IF out.entry.found THEN out.before.items
                     ELSE IF out.before.items >= MaxEntries THEN MaxEntries
                     ELSE out.before.items + 1

(***************************************************************************)
(* Claims about the milestone operations (specification SpecMilestones)    *)
(***************************************************************************)
IsMilestoneOp ==
    out.fn \in {"create_milestone", "update_milestone", "delete_milestone"}

\* the milestone with this id is in the list get_project_milestones gives
IsListed(df, milestone_id, t) ==
    LET l == get_project_milestones(df, None, t).val
    IN  \E i \in DOMAIN l : l[i].id = milestone_id

IsKeyHit == out.fn = "memoized" /\ out.hit

\* the scalar positional arguments of an invocation, as values
RECURSIVE Scalars(_)
Scalars(args) ==
    IF args = <<>> THEN <<>>
    ELSE IF IsScalar(Head(args)) THEN <<Head(args)>> \o Scalars(Tail(args))
    ELSE Scalars(Tail(args))

KeyTexts(inv) ==
    ScalarParts(inv.args) \o (IF inv.path # "" THEN <<inv.path>> ELSE <<>>)

IsRecentOut == out.fn = "get_recent_tasks" /\ ~out.r.raised

\* the columns get_recent_tasks reads
RecentCols == {"project_id", "task_name", "task_status", "task_start_date",
               "task_finish_date"}

\* the rows of the project the call named; none when the table lacks a
\* column the function reads (the internal error)
RecentRows ==
    LET df == DfOf(out.path)
    IN  IF RecentCols \subseteq df.cols
        THEN SelectSeq(df.rows, LAMBDA r : str(r.project_id) = out.arg)
        ELSE <<>>

\* row r is not done and starts on a calendar day after the day of time t
StartsLater(r, t) ==
    /\ r.task_status # DONE
    /\ ~IsNaT(r.task_start_date)
    /\ dt_date(r.task_start_date) > dt_date(t)

\* row r is not done and the day of time t is between its start and finish
IsUnderWay(r, t) ==
    /\ r.task_status # DONE
    /\ ~IsNaT(r.task_start_date) /\ ~IsNaT(r.task_finish_date)
    /\ dt_date(r.task_start_date) <= dt_date(t)
    /\ dt_date(t) <= dt_date(r.task_finish_date)

\* C21: in_progress is a task that is not done with start <= today <=
\* finish, null iff there is none; next_task and next_next_task are the
\* first and second of the not-done tasks that start after today, by start
\* date; next_next_task is set only if next_task is, and its days_until is
\* not less; a project without tasks, or an error, gives four null slots.
C21_RecentSlots ==
    IsRecentOut =>
        LET v == out.r.val
            rows == RecentRows
            later == {i \in DOMAIN rows : StartsLater(rows[i], out.at)}
            DaysTo(i) == dt_date(rows[i].task_start_date) - dt_date(out.at)
        IN  /\ rows = <<>> => v = AllNull
            /\ v.in_progress.null <=>
                 ~\E i \in DOMAIN rows : IsUnderWay(rows[i], out.at)
            /\ ~v.in_progress.null =>
                 \E i \in DOMAIN rows : /\ IsUnderWay(rows[i], out.at)
                                        /\ rows[i].task_name = v.in_progress.name
            /\ v.next_task.null <=> later = {}
            /\ v.next_next_task.null <=> Cardinality(later) <= 1
            /\ ~v.next_next_task.null => ~v.next_task.null
            /\ ~v.next_task.null =>
                 \E i \in later :
                    /\ rows[i].task_name = v.next_task.name
                    /\ DaysTo(i) = v.next_task.days
                    /\ \A j \in later : DaysTo(i) <= DaysTo(j)
                    /\ ~v.next_next_task.null =>
                         \E k \in later \ {i} :
                            /\ rows[k].task_name = v.next_next_task.name
                            /\ DaysTo(k) = v.next_next_task.days
                            /\ \A j \in later \ {i} : DaysTo(k) <= DaysTo(j)
            /\ (~v.next_task.null /\ ~v.next_next_task.null) =>
                 v.next_task.days <= v.next_next_task.days

\* C21 witness: both next slots are set, and the second task of the file
\* comes first
C21_Witness ==
    /\ IsRecentOut
    /\ ~out.r.val.next_next_task.null
    /\ out.r.val.next_task.name = TaskIdOf(2)
    /\ out.r.val.next_task.days < out.r.val.next_next_task.days

(***************************************************************************)
(* Claims about the label of the next milestone (specification SpecApi)    *)
(***************************************************************************)
\* the label by calendar days: the day of the finish date against today
CalendarLabel(task_name, next_date, t) ==
    LET n == dt_date(next_date) - dt_date(t)
    IN  IF IsNaT(next_date)
        THEN [kind |-> "nodate", name |-> task_name, n |-> 0]
        ELSE IF n > 0 THEN [kind |-> "later", name |-> task_name, n |-> n]
        ELSE IF n < 0 THEN [kind |-> "ago", name |-> task_name, n |-> -n]
        ELSE [kind |-> "today", name |-> task_name, n |-> 0]

\* C22 (as claimed): the label of a project is '-' when the project has no
\* milestone, and otherwise the label by calendar days of one of its
\* milestones: 'today' when the finish date is today's date at any time of
\* day, N days later or ago with N >= 1 otherwise, a placeholder for a null
\* finish date.
C22_LabelByCalendarDay ==
    out.fn \in {"get_projects", "get_project"} /\ ~out.r.raised =>
        LET df == DfOf(out.path)
        IN  \A i \in DOMAIN out.r.val :
              LET M == MilestonesOf(df, out.r.val[i].project_id)
                  label == out.r.val[i].next_milestone
              IN  IF M = {} THEN label = NoLabel
                  ELSE \E k \in M :
                         label = CalendarLabel(df.rows[k].task_name,
                                               df.rows[k].task_finish_date, out.at)

(***************************************************************************)
(* Claims about the projects file (specification SpecCompanion)            *)
(***************************************************************************)
\* row v holds every cell of the task row r
HoldsRow(v, r) == \A c \in DOMAIN r : v[c] = r[c]

\* C23: every task row of the CSV is in the record set the loader returns,
\* whether or not the projects table has a row with its project_id; the rows
\* without one have null project_path and ganttchart_path; and with no
\* projects file, or one that is not read, the load is no error and returns
\* the task rows alone.
C23_TaskRowsAreKept ==
    IsLoadOut /\ out.path = PathDash =>
        LET src == fs[PathDash]
            proj == fs[PathProj]
            v == out.r.val
        IN  /\ ~out.r.raised
            /\ "error" \notin v.cols /\ "error_message" \notin v.cols
            /\ \A i \in DOMAIN src.rows :
                 \E j \in DOMAIN v.rows : HoldsRow(v.rows[j], src.rows[i])
            /\ PathCols \subseteq v.cols =>
                 \A j \in DOMAIN v.rows :
                    (~\E k \in DOMAIN proj.rows :
                         proj.rows[k].project_id = v.rows[j].project_id)
                    => /\ v.rows[j].project_path = NullStr
                       /\ v.rows[j].ganttchart_path = NullStr
            /\ (~proj.exists \/ ~proj.decodes) =>
                 v = DataFrame(src.cols, src.rows)

\* C23 witness: a load that merged the projects table: one task row got the
\* paths of its project and another, of a project the table lacks, got none
C23_Witness ==
    /\ IsLoadOut /\ out.path = PathDash /\ ~out.r.raised
    /\ PathCols \subseteq out.r.val.cols
    /\ \E j, k \in DOMAIN out.r.val.rows :
         /\ out.r.val.rows[j].project_path = NullStr
         /\ out.r.val.rows[k].project_path # NullStr

(***************************************************************************)
(* Claims about the order of the resolver (specification SpecLoad)         *)
(***************************************************************************)
\* the candidates in the order claimed: the file PMSUITE_DASHBOARD_FILE
\* names, the bundle file under APP_PATH, the files of the user folders
RankedCandidates ==
    (IF environ.PMSUITE_DASHBOARD_FILE # ""
     THEN <<environ.PMSUITE_DASHBOARD_FILE>> ELSE <<>>)
    \o (IF environ.APP_PATH # "" THEN <<ExportsUnder(environ.APP_PATH)>> ELSE <<>>)
    \o [i \in DOMAIN UserFolders |-> TargetUnder(UserFolders[i])]

\* C24 (as claimed): when the resolver looks at the environment and the
\* files and a candidate exists, it returns the first candidate that exists:
\* the override of the environment, else the bundle file under APP_PATH,
\* else the first file of the user folders.
C24_FirstExistingCandidate ==
    (/\ out.fn \in {"resolve_dashboard_path", "main.resolve_dashboard_path"}
     /\ out.ran
     /\ FirstExisting(fs, RankedCandidates) # None)
    => out.r.val = FirstExisting(fs, RankedCandidates)

(***************************************************************************)
(* Claims about clear_cache and get_cache_stats (specification Spec)       *)
(***************************************************************************)
\* the share of hits among the calls counted so far, in percent
IsHitShare(s) ==
    IF s.hits + s.misses = 0
    THEN s.hit_ratio = Ratio(0, 1)
    ELSE /\ s.hit_ratio.den # 0
         /\ s.hit_ratio.num * (s.hits + s.misses) = 100 * s.hits * s.hit_ratio.den

\* C25: clear_cache returns the number of entries the store held and leaves
\* get_cache_stats with items = 0; a memoized call made on the emptied store
\* is a miss that runs the wrapped function; and hit_ratio is the
\* percentage hits / (hits + misses), 0 before the first call
C25_ClearAndStats ==
    /\ (out.fn = "clear_cache")
          => (out.r = Ok(out.before.items) /\ get_cache_stats(St).items = 0)
    /\ (IsCallOut /\ out.before.items = 0) => (out.ran /\ ~out.hit)
    /\ IsHitShare(get_cache_stats(St))

\* C25 witness: a full store with hits counted has just been cleared
C25_Witness ==
    /\ out.fn = "clear_cache"
    /\ out.r.val = MaxEntries
    /\ out.before.hits > 0
    /\ get_cache_stats(St).hit_ratio.num > 0

(***************************************************************************)
(* The rollup and get_next_milestone on tables with free-text milestone    *)
(* cells                                                                   *)
(***************************************************************************)
\* a milestone cell that holds the mark followed by a remark
MarkNote == MARK \o "!"

MarkAttr == [pid : {1, 2}, finish : {NaT, 1}, ms : {MARK, NullStr, MarkNote}]

MarkRow(i, a) ==
    MkRow(PidInt(a.pid), TaskIdOf(i), "task", "open", 0, a.finish, a.ms)

MarkTable(a) == [i \in DOMAIN a |-> MarkRow(i, a[i])]

InitMarks ==
    \E n \in 0..MaxRows : \E a \in [1..n -> MarkAttr] :
        InitWith(FilesWith(File(TaskCols, MarkTable(a))), 0)

NextMarks ==
    \/ CallCalculateProgress(PathA)
    \/ CallNextMilestone(PathA, TRUE)

SpecMarks == InitMarks /\ [][NextMarks]_vars

\* the rows of project pid among those get_next_milestone(df, True) selects
SelectedOf(df, t, pid) ==
    SelectSeq(milestone_rows(df, t, TRUE).val.rows,
              LAMBDA r : r.project_id = pid)

\* C26 (as claimed): in every row of the rollup, milestone_count is the
\* number of the project's rows that get_next_milestone(include_past=True)
\* selects.
C26_SameMilestonePredicate ==
    IsRollupOut =>
        \A i \in DOMAIN out.r.val.rows :
            LET row == out.r.val.rows[i]
            IN  row.milestone_count
                  = Len(SelectedOf(DfOf(out.path), out.at, row.project_id))

(***************************************************************************)
(* Claims about the include_past argument and the store (SpecDelay)        *)
(***************************************************************************)
\* what get_next_milestone(df, include_past=...) computes at time t when it
\* runs: the selection, or the one with the past when the other is empty
ComputedWith(df, t, include_past) ==
    LET m == milestone_rows(df, t, include_past)
    IN  IF ~m.raised /\ m.val.rows = <<>> /\ ~include_past
        THEN milestone_rows(df, t, TRUE)
        ELSE m

\* C27 (as claimed): a call of get_next_milestone with include_past left out
\* or passed by keyword that is answered from the store receives what the
\* function computes with the include_past value of that call.
C27_StoredForSameIncludePast ==
    (out.fn = "get_next_milestone" /\ out.arg = "" /\ out.hit)
        => out.r = ComputedWith(DfOf(out.path), out.at, out.kw)

(***************************************************************************)
(* Claims about failed loads and the store (specification SpecLoad)        *)
(***************************************************************************)
\* a record set a failed load returns: one with an 'error' or an
\* 'error_message' field
IsFailedLoad(df) == {"error", "error_message"} \cap df.cols # {}

\* C28 (as claimed): load_and_process_data never answers from the store with
\* the result of a failed load, and a call for a path at which a readable
\* file now is returns a loaded record set, also when an earlier call for
\* the path failed less than the ttl ago.
C28_ErrorsAreNotStored ==
    /\ (out.fn = AppLoader /\ out.hit) => ~IsFailedLoad(out.r.val)
    /\ (out.fn = AppLoader /\ out.arg = "" /\ ~LoadFails(AppLoader, out.path))
          => ~IsFailedLoad(out.r.val)

(***************************************************************************)
(* Calls of get_project_milestones on tables of milestones with start and  *)
(* finish dates in either order                                            *)
(***************************************************************************)
CallProjectMilestones(p, project_id) ==
    /\ CallsLeft
    /\ Returns(cached_get_project_milestones(St, now, DfOf(p), project_id),
               "get_project_milestones", p,
               IF project_id = None THEN "" ELSE project_id, FALSE)

DepAttr == [pid : {1, 2}, start : {NaT, 0, 2}, finish : {NaT, 1, 3}]

DepTable(a) ==
    [i \in DOMAIN a |-> MkRow(PidInt(a[i].pid), TaskIdOf(i), "task", "open",
                              a[i].start, a[i].finish, MARK)]

\* every table of at most MaxRows milestones, and the tables without the
\* task_start_date column
InitDeps ==
    \E n \in 0..MaxRows : \E a \in [1..n -> DepAttr] :
        \E cols \in {TaskCols, TaskCols \ {"task_start_date"}} :
            InitWith(FilesWith(File(cols, DepTable(a))), 0)

NextDeps == \E project_id \in {None, "1"} : CallProjectMilestones(PathA, project_id)

SpecDeps == InitDeps /\ [][NextDeps]_vars

\* the milestones of list that the milestones with an id in S depend on
DependedOn(list, S) ==
    UNION {{list[i].dependencies[k] : k \in DOMAIN list[i].dependencies} :
              i \in {j \in DOMAIN list : list[j].id \in S}}

\* the ids reached from the ids S along at least one and at most n
\* dependencies
RECURSIVE ReachedFrom(_, _, _)
ReachedFrom(list, S, n) ==
    IF n = 0 THEN {}
    ELSE DependedOn(list, S) \cup ReachedFrom(list, DependedOn(list, S), n - 1)

\* C29 (as claimed): every milestone of the list get_project_milestones
\* returns has at most one dependency, the dependency is another milestone
\* of the list with the same project, and no milestone is reached from
\* itself along dependencies.
C29_DependenciesAcyclic ==
    (out.fn = "get_project_milestones" /\ ~out.r.raised) =>
        LET list == out.r.val
        IN  \A i \in DOMAIN list :
              /\ Len(list[i].dependencies) <= 1
              /\ \A k \in DOMAIN list[i].dependencies :
                    /\ list[i].dependencies[k] # list[i].id
                    /\ \E j \in DOMAIN list :
                          /\ list[j].id = list[i].dependencies[k]
                          /\ list[j].project_id = list[i].project_id
              /\ list[i].id \notin ReachedFrom(list, {list[i].id}, Len(list))

(***************************************************************************)
(* Calls of the readiness functions                                        *)
(***************************************************************************)
\* the effect of a readiness function on the module state
Health(fn, component_name, st, r) ==
    /\ initialization_state' = st
    /\ out' = [NoOut EXCEPT !.fn = fn, !.arg = component_name, !.at = now,
                            !.ran = TRUE, !.r = r]
    /\ UNCHANGED <<now, fs, environ, default_dashboard_path, cache, stats, pc, loc>>

GetReadinessStatus ==
    LET b == get_readiness_status(initialization_state, now)
    IN  Health("get_readiness_status", "", b.st, b.r)

RegisterComponentReady(component_name, details) ==
    Health("register_component_ready", component_name,
           register_component_ready(initialization_state, component_name, details),
           Ok(None))

SetComponentError(component_name) ==
    Health("set_component_error", component_name,
           set_component_error(initialization_state, component_name, "failed"),
           Ok(None))

ResetInitializationState ==
    Health("reset_initialization_state", "", reset_initialization_state(now),
           Ok(None))

\* details=None
NoDetails == <<>>

\* the components the callers name: three of the module's and one of theirs
NamedComponents == Components \cup {"cache"}

InitHealth == InitWith(FilesWith(NoFile), 0)

NextHealth ==
    \/ GetReadinessStatus
    \/ \E c \in NamedComponents, d \in {NoDetails, [version |-> "1"]} :
          RegisterComponentReady(c, d)
    \/ \E c \in NamedComponents : SetComponentError(c)
    \/ ResetInitializationState

SpecHealth == InitHealth /\ [][NextHealth]_vars

\* a component whose error is on record: set_component_error was called for
\* it after the last reset
ErrorOnRecord(st) ==
    \E c \in DOMAIN st.details : "error" \in DOMAIN st.details[c]

\* C30 (as claimed): while the error of a component is on record, that is
\* from set_component_error until reset_initialization_state, every
\* get_readiness_status reports readiness 'error'.
C30_ErrorIsSticky ==
    (out.fn = "get_readiness_status" /\ ErrorOnRecord(initialization_state))
        => out.r.val.readiness = "error"

====
